---- MODULE Spec2Model ----
(***************************************************************************)
(* Conversation persistence engine: the entity model (models.py), the file *)
(* backend (json_storage.py), the relational backend (db_storage.py,       *)
(* database.py), the backend selector (factory.py) and the Conversation    *)
(* Manager (manager.py).                                                   *)
(*                                                                         *)
(* Every backend coroutine runs without a real suspension point (file and  *)
(* SQLAlchemy calls are blocking, an uncontended asyncio.Lock is acquired  *)
(* without yielding), so one Manager call is one atomic step.              *)
(***************************************************************************)
EXTENDS Integers, Sequences, FiniteSets, TLC

(***************************************************************************)
(* Bounds of the model.                                                    *)
(***************************************************************************)
MaxConvs == 2
MaxMsgs == 3
MaxSums == 1
MaxTime == 1
MaxFaults == 1
MaxTasks == 2

Users == {"u1", "u2"}

(***************************************************************************)
(* Program constants.                                                      *)
(***************************************************************************)
DefaultContextWindow == 10
MaxContentLength == 50000
SummaryPrefixLength == 31

\* Settings (settings.py:51-52) scaled to the model's clock: one clock unit
\* stands for the resolution at which the cleanup horizon is observed.
auto_summarize_threshold == 2
cleanup_old_data_days == 0
\* JsonConversationStorage._cache_ttl, one clock unit.
CacheTtl == 1
\* Settings.max_conversations_per_user (settings.py:49), handed to both
\* backends by the factory; scaled from 100.
max_conversations_per_user == 1

None == [none |-> TRUE]
NoFile == [file |-> "absent"]
\* A file that does not parse, in the directory of user u.
Corrupt(u) == [file |-> "corrupt", user_id |-> u]

(***************************************************************************)
(* Text values.  A string is kept as what the validators look at: the      *)
(* number of leading white-space characters, the length of the core (from  *)
(* the first to the last non-white-space character) and the number of      *)
(* trailing white-space characters; txt names the core.                    *)
(***************************************************************************)
Text(txt, lead, core, trail) ==
    [txt |-> txt, lead |-> lead, core |-> core, trail |-> trail]

TextLen(s) == s.lead + s.core + s.trail

\* str.strip(): of a blank string nothing is left.
Strip(s) == IF s.core = 0 THEN Text("", 0, 0, 0) ELSE Text(s.txt, 0, s.core, 0)

Hello == Text("Hello", 0, 5, 0)
Padded == Text("Hi", 1, 2, 2)
Blank == Text("", 0, 0, 3)
Empty == Text("", 0, 0, 0)
TooLong == Text("x", 0, MaxContentLength + 1, 0)
ShortSummary == Text("sum", 0, 20, 0)
LongSummary == Text("SUM", 0, MaxContentLength - SummaryPrefixLength + 1, 0)

\* f"Previous conversation summary: {summary}": the prefix ends in a space.
SummaryContent(s) ==
    IF s.core = 0
    THEN Text("Previous conversation summary:", 0, SummaryPrefixLength - 1,
              1 + s.lead + s.trail)
    ELSE Text(s.txt, 0, SummaryPrefixLength + s.lead + s.core, s.trail)

(***************************************************************************)
(* Entity model (models.py).                                               *)
(***************************************************************************)
Roles == {"user", "assistant", "system"}

\* ConversationMessage without the field constraints and validators (used to
\* test C20).
ConversationMessage_Unvalidated(id, role, content, timestamp, t) ==
    [exc |-> "none",
     val |-> [id |-> id, role |-> role, content |-> Strip(content),
              timestamp |-> timestamp]]

\* ConversationMessage(...): the field constraints on content (min_length,
\* max_length) are checked on the value as given, then validate_content
\* strips it; validate_timestamp rejects a timestamp later than utcnow().
ConversationMessage(id, role, content, timestamp, t) ==
    IF \/ TextLen(content) < 1
       \/ TextLen(content) > MaxContentLength
       \/ Strip(content).core = 0
       \/ timestamp > t
    THEN [exc |-> "ValidationError"]
    ELSE [exc |-> "none",
          val |-> [id |-> id, role |-> role, content |-> Strip(content),
                   timestamp |-> timestamp]]

\* ConversationSummary(summary, key_topics, message_count), created_at = utcnow().
ConversationSummary(summary, message_count, t) ==
    [summary |-> summary, created_at |-> t, message_count |-> message_count]

\* UserConversation(user_id, conversation_id) with the field defaults.
UserConversation(u, cid, t) ==
    [user_id |-> u, conversation_id |-> cid, messages |-> <<>>,
     summaries |-> <<>>, created_at |-> t, updated_at |-> t,
     is_active |-> TRUE, context_window_size |-> DefaultContextWindow]

\* seq[start:] of Python: a negative start counts from the end, both clamped.
PySliceFrom(seq, start) ==
    LET n == Len(seq)
        b == IF start < 0 THEN (IF n + start < 0 THEN 0 ELSE n + start)
             ELSE (IF start > n THEN n ELSE start)
    IN SubSeq(seq, b + 1, n)

\* max(self.summaries, key=lambda s: s.created_at): the first of the greatest.
LatestSummary(summaries) ==
    LET i == CHOOSE i \in 1..Len(summaries) :
                 /\ \A j \in 1..Len(summaries) :
                        summaries[j].created_at <= summaries[i].created_at
                 /\ \A j \in 1..(i - 1) :
                        summaries[j].created_at < summaries[i].created_at
    IN summaries[i]

\* self.messages[-self.context_window_size:] if self.messages else []
RecentMessages(conv) ==
    IF conv.messages # <<>>
    THEN PySliceFrom(conv.messages, 0 - conv.context_window_size)
    ELSE <<>>

\* UserConversation.get_recent_context: raises when the synthetic summary
\* message does not validate.
get_recent_context(conv, include_summary, t) ==
    IF include_summary /\ conv.summaries # <<>>
    THEN LET latest == LatestSummary(conv.summaries)
             m == ConversationMessage(<<"summary", latest.created_at>>, "system",
                                      SummaryContent(latest.summary),
                                      latest.created_at, t)
         IN IF m.exc # "none" THEN [exc |-> m.exc]
            ELSE [exc |-> "none", val |-> <<m.val>> \o RecentMessages(conv)]
    ELSE [exc |-> "none", val |-> RecentMessages(conv)]

\* add_message putting the new message first (used to test C6).
add_message_Prepend(conv, role, content, t) ==
    LET m == ConversationMessage(<<conv.conversation_id, Len(conv.messages) + 1>>,
                                 role, content, t, t)
    IN IF m.exc # "none" THEN [exc |-> m.exc]
       ELSE [exc |-> "none", message |-> m.val,
             conv |-> [conv EXCEPT !.messages = <<m.val>> \o @,
                                   !.updated_at = t]]

\* UserConversation.add_message: the id stands for uuid4(), fresh because a
\* conversation only grows.
add_message(conv, role, content, t) ==
    LET m == ConversationMessage(<<conv.conversation_id, Len(conv.messages) + 1>>,
                                 role, content, t, t)
    IN IF m.exc # "none" THEN [exc |-> m.exc]
       ELSE [exc |-> "none", message |-> m.val,
             conv |-> [conv EXCEPT !.messages = Append(@, m.val),
                                   !.updated_at = t]]

\* The count that also takes the messages stamped at the Summary's own
\* created_at (used to test C24).
MessagesSince_Inclusive(conv, created_at) ==
    Cardinality({i \in 1..Len(conv.messages) :
                     conv.messages[i].timestamp >= created_at})

\* len([msg for msg in self.messages if msg.timestamp > latest.created_at])
MessagesSince(conv, created_at) ==
    Cardinality({i \in 1..Len(conv.messages) :
                     conv.messages[i].timestamp > created_at})

\* should_summarize without the look at the latest summary (used to test C3).
should_summarize_NoHysteresis(conv, max_messages) ==
    Len(conv.messages) >= max_messages

\* UserConversation.should_summarize(max_messages)
should_summarize(conv, max_messages) ==
    IF Len(conv.messages) < max_messages THEN FALSE
    ELSE IF conv.summaries = <<>> THEN TRUE
    ELSE MessagesSince(conv, LatestSummary(conv.summaries).created_at)
             >= max_messages \div 2

(***************************************************************************)
(* State.                                                                  *)
(***************************************************************************)
VARIABLES
    kind,      \* PersistenceFactory.create_storage: "none", "json" or "database";
               \* "both" where the two backends are compared side by side
    phase,     \* "constructed", "running" (initialize done), "stopped" (shutdown done)
    now,       \* the reading of datetime.utcnow()
    files,     \* file backend: <storage_dir>/<user_id>/<conversation_id>.json,
               \* by conversation id; the directory is the file's user_id
    dirs,      \* file backend: the user directories that exist under the root
    cache,     \* file backend: _cache and _cache_expiry, by conversation id
    rows,      \* relational backend: the conversations table with its children
    nextId,    \* how many conversation ids uuid4() has handed out
    faults,    \* storage failures injected so far
    raised,    \* the last call let an exception escape to its caller
    lock,      \* file backend: the task that holds self._lock, or NoTask
    running,   \* the task the event loop is executing, or NoTask
    tasks      \* file backend calls in flight: for each task the operation,
               \* the region it is at, and the conversation it works on

vars == <<kind, phase, now, files, dirs, cache, rows, nextId, faults, raised,
          lock, running, tasks>>

\* A generated conversation id: uuid4() as a serial, never handed out twice.
\* The serial past the bound exists so that the step that would use it can be
\* computed and then refused by the bound.  Where the code leaves an order to
\* the medium (directory listing, unordered query) it is the order of ids.
ConvIds == 1..(MaxConvs + 1)
\* conversation_id: Optional[str] = None
NoId == 0
NoEntry == [entry |-> "absent"]
NoRow == [row |-> "absent"]

\* Calls of the file backend that are in flight on the event loop together.
Tasks == 1..MaxTasks
NoTask == 0
Idle == [op |-> "idle", pc |-> "done", at |-> "done", u |-> "u1", cid |-> NoId,
         conv |-> None]

\* list.sort(key=updated_at, reverse=True) / ORDER BY updated_at DESC: stable.
RECURSIVE InsertDesc(_, _)
InsertDesc(sorted, c) ==
    IF sorted = <<>> THEN <<c>>
    ELSE IF Head(sorted).updated_at >= c.updated_at
         THEN <<Head(sorted)>> \o InsertDesc(Tail(sorted), c)
         ELSE <<c>> \o sorted
RECURSIVE SortByUpdatedDesc(_)
SortByUpdatedDesc(seq) ==
    IF seq = <<>> THEN <<>>
    ELSE InsertDesc(SortByUpdatedDesc(SubSeq(seq, 1, Len(seq) - 1)), seq[Len(seq)])

\* sorted(children, key=lambda x: x.<field>): stable, ascending.
RECURSIVE InsertAsc(_, _, _)
InsertAsc(sorted, x, field) ==
    IF sorted = <<>> THEN <<x>>
    ELSE IF Head(sorted)[field] <= x[field]
         THEN <<Head(sorted)>> \o InsertAsc(Tail(sorted), x, field)
         ELSE <<x>> \o sorted
RECURSIVE SortAsc(_, _)
SortAsc(seq, field) ==
    IF seq = <<>> THEN <<>>
    ELSE InsertAsc(SortAsc(SubSeq(seq, 1, Len(seq) - 1), field), seq[Len(seq)], field)

\* The storage as one value, threaded through the steps of an operation.
\* fault = k > 0: the k-th storage access of the operation that can raise
\* does raise; torn: a failed file write leaves a truncated file behind.
Storage(fault, torn) ==
    [files |-> files, dirs |-> dirs, cache |-> cache, rows |-> rows,
     nextId |-> nextId, fault |-> fault, torn |-> torn]

Fails(B) == B.fault = 1
Tick1(B) == [B EXCEPT !.fault = IF @ > 0 THEN @ - 1 ELSE 0]

Ok(B, val) == [B |-> B, exc |-> "none", val |-> val]
Raise(B, exc) == [B |-> B, exc |-> exc, val |-> None]

(***************************************************************************)
(* File backend (json_storage.py).                                         *)
(***************************************************************************)
\* _load_conversation_from_file: a missing file and a file that does not
\* parse both give None.
Json_load_conversation_from_file(B, u, cid) ==
    LET f == B.files[cid]
    IN IF f = NoFile THEN None
       ELSE IF f.user_id # u \/ f = Corrupt(u) THEN None ELSE f

\* _save_conversation_to_file: mkdir, then open(..., 'w') and write.
Json_save_conversation_to_file(B, conv) ==
    LET k == conv.conversation_id
        D == [B EXCEPT !.dirs = @ \cup {conv.user_id}]
    IN IF Fails(B)
       THEN Raise([Tick1(D) EXCEPT
                       !.files[k] = IF B.torn THEN Corrupt(conv.user_id) ELSE @],
                  "OSError")
       ELSE Ok([Tick1(D) EXCEPT !.files[k] = conv], None)

\* _get_cached_conversation that still serves an entry at its expiry (used to
\* test C29).
Json_get_cached_conversation_AtExpiry(B, u, cid, t) ==
    LET e == B.cache[cid]
    IN IF e = NoEntry THEN Ok(B, None)
       ELSE IF e.conv.user_id # u THEN Ok(B, None)
       ELSE IF t <= e.expiry THEN Ok(B, e.conv)
       ELSE Ok([B EXCEPT !.cache[cid] = NoEntry], None)

\* _get_cached_conversation: an expired entry is dropped by the lookup.
Json_get_cached_conversation(B, u, cid, t) ==
    LET e == B.cache[cid]
    IN IF e = NoEntry THEN Ok(B, None)
       ELSE IF e.conv.user_id # u THEN Ok(B, None)
       ELSE IF t < e.expiry THEN Ok(B, e.conv)
       ELSE Ok([B EXCEPT !.cache[cid] = NoEntry], None)

\* _cache_conversation
Json_cache_conversation(B, conv, t) ==
    [B EXCEPT !.cache[conv.conversation_id] =
                  [conv |-> conv, expiry |-> t + CacheTtl]]

\* _list_conversations_from_disk
RECURSIVE JsonScan(_, _, _, _)
JsonScan(B, u, active_only, i) ==
    IF i > MaxConvs + 1 THEN <<>>
    ELSE LET c == Json_load_conversation_from_file(B, u, i)
         IN (IF c # None /\ (~active_only \/ c.is_active) THEN <<c>> ELSE <<>>)
            \o JsonScan(B, u, active_only, i + 1)
Json_list_conversations_from_disk(B, u, active_only) ==
    IF u \notin B.dirs THEN <<>>
    ELSE SortByUpdatedDesc(JsonScan(B, u, active_only, 1))

\* seq[offset:offset + limit] of Python, offset and limit not negative.
PySlice(seq, offset, limit) ==
    SubSeq(seq, offset + 1,
           IF offset + limit > Len(seq) THEN Len(seq) ELSE offset + limit)

\* list_conversations over the active conversations only (used to test C31).
Json_list_conversations_ActiveOnly(B, u, limit, offset) ==
    Ok(B, PySlice(Json_list_conversations_from_disk(B, u, TRUE), offset, limit))

\* list_conversations: from disk, not through the lock or the cache.
Json_list_conversations(B, u, limit, offset) ==
    Ok(B, PySlice(Json_list_conversations_from_disk(B, u, FALSE), offset, limit))

\* get_conversation: without an id the active conversation comes from disk,
\* with an id the cache is asked first.
Json_get_conversation(B, u, cid, t) ==
    IF cid = NoId
    THEN LET l == Json_list_conversations_from_disk(B, u, TRUE)
         IN Ok(B, IF l # <<>> THEN l[1] ELSE None)
    ELSE LET g == Json_get_cached_conversation(B, u, cid, t)
         IN IF g.val # None THEN g
            ELSE LET c == Json_load_conversation_from_file(g.B, u, cid)
                 IN IF c # None THEN Ok(Json_cache_conversation(g.B, c, t), c)
                    ELSE Ok(g.B, None)

\* uuid4(): the next unused serial.
FreshId(B) == B.nextId + 1

\* create_conversation: cached, then written.
Json_create_conversation(B, u, cid, t) ==
    LET id == IF cid = NoId THEN FreshId(B) ELSE cid
        N == IF cid = NoId THEN [B EXCEPT !.nextId = @ + 1] ELSE B
        conv == UserConversation(u, id, t)
        w == Json_save_conversation_to_file(Json_cache_conversation(N, conv, t), conv)
    IN IF w.exc # "none" THEN w ELSE Ok(w.B, conv)

\* save_conversation: updated_at = utcnow(), cached, then written.
Json_save_conversation(B, conv, t) ==
    LET c == [conv EXCEPT !.updated_at = t]
    IN Json_save_conversation_to_file(Json_cache_conversation(B, c, t), c)

\* archive_conversation that unlinks the file (used to test C9).
Json_archive_conversation_Unlink(B, u, cid, t) ==
    LET g == Json_get_conversation(B, u, cid, t)
    IN IF g.val = None THEN Ok(g.B, FALSE)
       ELSE Ok([g.B EXCEPT !.files[cid] = NoFile, !.cache[cid] = NoEntry], TRUE)

\* archive_conversation
Json_archive_conversation(B, u, cid, t) ==
    LET g == Json_get_conversation(B, u, cid, t)
    IN IF g.val = None THEN Ok(g.B, FALSE)
       ELSE LET w == Json_save_conversation(g.B, [g.val EXCEPT !.is_active = FALSE], t)
            IN IF w.exc # "none" THEN w ELSE Ok(w.B, TRUE)

\* delete_conversation that leaves the cache entry behind (used to test C18).
Json_delete_conversation_KeepCache(B, u, cid) ==
    IF B.files[cid] = NoFile THEN Ok(B, FALSE)
    ELSE IF B.files[cid].user_id # u THEN Ok(B, FALSE)
    ELSE IF Fails(B) THEN Ok(Tick1(B), FALSE)
    ELSE Ok([Tick1(B) EXCEPT !.files[cid] = NoFile], TRUE)

\* delete_conversation: a failing unlink is caught and reported as False.
Json_delete_conversation(B, u, cid) ==
    IF B.files[cid] = NoFile THEN Ok(B, FALSE)
    ELSE IF B.files[cid].user_id # u THEN Ok(B, FALSE)
    ELSE IF Fails(B) THEN Ok(Tick1(B), FALSE)
    ELSE Ok([Tick1(B) EXCEPT !.files[cid] = NoFile,
                             !.cache[cid] = NoEntry], TRUE)

\* add_message
Json_add_message(B, u, role, content, cid, t) ==
    LET g == Json_get_conversation(B, u, cid, t)
        c == IF g.val = None THEN Json_create_conversation(g.B, u, cid, t) ELSE g
    IN IF c.exc # "none" THEN c
       ELSE LET a == add_message(c.val, role, content, t)
            IN IF a.exc # "none" THEN Raise(c.B, a.exc)
               ELSE LET w == Json_save_conversation(c.B, a.conv, t)
                    IN IF w.exc # "none" THEN w ELSE Ok(w.B, a.message)

\* get_context_messages
Json_get_context_messages(B, u, cid, include_summary, t) ==
    LET g == Json_get_conversation(B, u, cid, t)
    IN IF g.val = None THEN Ok(g.B, <<>>)
       ELSE LET r == get_recent_context(g.val, include_summary, t)
            IN IF r.exc # "none" THEN Raise(g.B, r.exc) ELSE Ok(g.B, r.val)

\* create_summary that counts the Summary itself as a message (used to test
\* C23).
Json_create_summary_CountAhead(B, u, cid, summary, t) ==
    LET g == Json_get_conversation(B, u, cid, t)
    IN IF g.val = None THEN Raise(g.B, "ValueError")
       ELSE LET sm == ConversationSummary(summary, Len(g.val.messages) + 1, t)
                w == Json_save_conversation(
                         g.B, [g.val EXCEPT !.summaries = Append(@, sm)], t)
            IN IF w.exc # "none" THEN w ELSE Ok(w.B, sm)

\* create_summary
Json_create_summary(B, u, cid, summary, t) ==
    LET g == Json_get_conversation(B, u, cid, t)
    IN IF g.val = None THEN Raise(g.B, "ValueError")
       ELSE LET sm == ConversationSummary(summary, Len(g.val.messages), t)
                w == Json_save_conversation(
                         g.B, [g.val EXCEPT !.summaries = Append(@, sm)], t)
            IN IF w.exc # "none" THEN w ELSE Ok(w.B, sm)

RECURSIVE SumMessages(_)
SumMessages(convs) ==
    IF convs = <<>> THEN 0
    ELSE Len(Head(convs).messages) + SumMessages(Tail(convs))

RECURSIVE CountActive(_)
CountActive(convs) ==
    IF convs = <<>> THEN 0
    ELSE (IF Head(convs).is_active THEN 1 ELSE 0) + CountActive(Tail(convs))

RECURSIVE MaxUpdated(_)
MaxUpdated(convs) ==
    IF Len(convs) = 1 THEN convs[1].updated_at
    ELSE LET m == MaxUpdated(Tail(convs))
         IN IF convs[1].updated_at >= m THEN convs[1].updated_at ELSE m

\* ConversationStats; the average is kept as the fraction <<messages, conversations>>.
ConversationStats(u, total_conversations, total_messages, active, last_activity) ==
    [user_id |-> u, total_conversations |-> total_conversations,
     total_messages |-> total_messages, active_conversations |-> active,
     last_activity |-> last_activity,
     avg_messages_per_conversation |->
         IF total_conversations > 0
         THEN <<total_messages, total_conversations>> ELSE <<0, 1>>]

\* get_user_stats over the active conversations only (used to test C7).
Json_get_user_stats_ActiveOnly(B, u) ==
    LET convs == Json_list_conversations_from_disk(B, u, TRUE)
    IN Ok(B, ConversationStats(u, Len(convs), SumMessages(convs), CountActive(convs),
                               IF convs # <<>> THEN MaxUpdated(convs) ELSE None))

\* get_user_stats
Json_get_user_stats(B, u) ==
    LET convs == Json_list_conversations_from_disk(B, u, FALSE)
    IN Ok(B, ConversationStats(u, Len(convs), SumMessages(convs), CountActive(convs),
                               IF convs # <<>> THEN MaxUpdated(convs) ELSE None))

\* cleanup_old_data: every file of every user directory; a failing unlink is
\* caught and the file is not counted.
RECURSIVE JsonCleanupFrom(_, _, _, _)
JsonCleanupFrom(B, cutoff, i, count) ==
    IF i > MaxConvs + 1 THEN Ok(B, count)
    ELSE LET f == B.files[i]
         IN IF f # NoFile /\ f # Corrupt(f.user_id)
               /\ f.updated_at < cutoff /\ ~f.is_active
            THEN IF Fails(B)
                 THEN JsonCleanupFrom(Tick1(B), cutoff, i + 1, count)
                 ELSE JsonCleanupFrom([Tick1(B) EXCEPT !.files[i] = NoFile],
                                      cutoff, i + 1, count + 1)
            ELSE JsonCleanupFrom(B, cutoff, i + 1, count)
Json_cleanup_old_data(B, days, t) == JsonCleanupFrom(B, t - days, 1, 0)

\* health_check: the root exists once initialize has made it.
Json_health_check(B) ==
    Ok(B, [healthy |-> TRUE, storage_accessible |-> TRUE,
           total_users |-> Cardinality(B.dirs),
           total_conversations |-> Cardinality({k \in ConvIds : B.files[k] # NoFile}),
           cache_size |-> Cardinality({k \in ConvIds : B.cache[k] # NoEntry})])

\* initialize: mkdir of the root; a failure is logged and raised again.
Json_initialize(B) ==
    IF Fails(B) THEN Raise(Tick1(B), "OSError") ELSE Ok(Tick1(B), None)

\* _flush_cache: every cached conversation, expired or not, is written; a
\* failing write is logged and skipped.
RECURSIVE JsonFlushFrom(_, _)
JsonFlushFrom(B, i) ==
    IF i > MaxConvs + 1 THEN B
    ELSE IF B.cache[i] = NoEntry THEN JsonFlushFrom(B, i + 1)
    ELSE JsonFlushFrom(Json_save_conversation_to_file(B, B.cache[i].conv).B, i + 1)
Json_flush_cache(B) == JsonFlushFrom(B, 1)

\* shutdown: flush, then both cache dictionaries are cleared.
Json_shutdown(B) ==
    Ok([Json_flush_cache(B) EXCEPT !.cache = [k \in ConvIds |-> NoEntry]], None)

(***************************************************************************)
(* Relational backend (db_storage.py, database.py).  A row of the          *)
(* conversations table is kept with its child rows, in insertion order;    *)
(* every method is one session, whose failure rolls its changes back; the  *)
(* session.commit() inside "with session.begin()" commits once.            *)
(***************************************************************************)
RECURSIVE Reverse(_)
Reverse(seq) == IF seq = <<>> THEN <<>> ELSE Append(Reverse(Tail(seq)), Head(seq))

\* _db_to_pydantic_conversation with the children newest first (used to test
\* C32).
Db_to_pydantic_conversation_NewestFirst(row) ==
    [row EXCEPT !.messages = Reverse(SortAsc(@, "timestamp")),
                !.summaries = Reverse(SortAsc(@, "created_at"))]

\* _db_to_pydantic_conversation: children sorted by timestamp / created_at.
Db_to_pydantic_conversation(row) ==
    [row EXCEPT !.messages = SortAsc(@, "timestamp"),
                !.summaries = SortAsc(@, "created_at")]

RECURSIVE DbScan(_, _, _, _)
DbScan(B, u, active_only, i) ==
    IF i > MaxConvs + 1 THEN <<>>
    ELSE LET r == B.rows[i]
         IN (IF r # NoRow /\ r.user_id = u /\ (~active_only \/ r.is_active)
             THEN <<r>> ELSE <<>>) \o DbScan(B, u, active_only, i + 1)

\* query(DBUserConversation).filter(user_id == u [, is_active]).order_by(desc(updated_at))
DbConversationsOf(B, u, active_only) == SortByUpdatedDesc(DbScan(B, u, active_only, 1))

RECURSIVE DbToPydanticAll(_)
DbToPydanticAll(rs) ==
    IF rs = <<>> THEN <<>>
    ELSE <<Db_to_pydantic_conversation(Head(rs))>> \o DbToPydanticAll(Tail(rs))

\* list_conversations: ORDER BY updated_at DESC LIMIT limit OFFSET offset.
Db_list_conversations(B, u, limit, offset) ==
    IF Fails(B) THEN Raise(Tick1(B), "SQLAlchemyError")
    ELSE Ok(Tick1(B),
            DbToPydanticAll(PySlice(DbConversationsOf(B, u, FALSE), offset, limit)))

\* get_conversation: with an id the lookup is by conversation_id alone.
Db_get_conversation(B, u, cid, t) ==
    IF Fails(B) THEN Raise(Tick1(B), "SQLAlchemyError")
    ELSE IF cid = NoId
    THEN LET l == DbConversationsOf(B, u, TRUE)
         IN Ok(Tick1(B), IF l # <<>> THEN Db_to_pydantic_conversation(l[1]) ELSE None)
    ELSE Ok(Tick1(B), IF B.rows[cid] # NoRow
                      THEN Db_to_pydantic_conversation(B.rows[cid]) ELSE None)

\* create_conversation: conversation_id is UNIQUE.
Db_create_conversation(B, u, cid, t) ==
    LET id == IF cid = NoId THEN FreshId(B) ELSE cid
        N == IF cid = NoId THEN [B EXCEPT !.nextId = @ + 1] ELSE B
    IN IF Fails(B) THEN Raise(Tick1(N), "SQLAlchemyError")
       ELSE IF B.rows[id] # NoRow THEN Raise(Tick1(N), "IntegrityError")
       ELSE Ok([Tick1(N) EXCEPT !.rows[id] = UserConversation(u, id, t)],
               UserConversation(u, id, t))

MessageIds(msgs) == {msgs[i].id : i \in 1..Len(msgs)}

\* message_id is UNIQUE over the whole messages table.
DbMessageIdClash(B, conv) ==
    \/ Cardinality(MessageIds(conv.messages)) # Len(conv.messages)
    \/ \E c \in ConvIds :
           /\ c # conv.conversation_id
           /\ B.rows[c] # NoRow
           /\ MessageIds(B.rows[c].messages) \cap MessageIds(conv.messages) # {}

\* _pydantic_to_db_conversation on an existing row: updated_at, is_active and
\* context_window_size are assigned; a row that is updated without a new
\* updated_at gets onupdate=datetime.utcnow.
DbUpdatedRow(row, conv, t) ==
    [row EXCEPT !.is_active = conv.is_active,
                !.context_window_size = conv.context_window_size,
                !.updated_at =
                    IF conv.updated_at # row.updated_at THEN conv.updated_at
                    ELSE IF \/ conv.is_active # row.is_active
                            \/ conv.context_window_size # row.context_window_size
                         THEN t ELSE row.updated_at,
                !.messages = conv.messages,
                !.summaries = conv.summaries]

\* save_conversation: one transaction: upsert the row, delete and re-insert
\* the messages, delete and re-insert the summaries.
Db_save_conversation(B, conv, t) ==
    IF Fails(B) THEN Raise(Tick1(B), "SQLAlchemyError")
    ELSE IF DbMessageIdClash(B, conv) THEN Raise(Tick1(B), "IntegrityError")
    ELSE LET old == B.rows[conv.conversation_id]
         IN Ok([Tick1(B) EXCEPT !.rows[conv.conversation_id] =
                    IF old = NoRow THEN conv ELSE DbUpdatedRow(old, conv, t)], None)

\* archive_conversation
Db_archive_conversation(B, u, cid, t) ==
    IF Fails(B) THEN Raise(Tick1(B), "SQLAlchemyError")
    ELSE IF B.rows[cid] # NoRow /\ B.rows[cid].user_id = u
    THEN Ok([Tick1(B) EXCEPT !.rows[cid].is_active = FALSE,
                             !.rows[cid].updated_at = t], TRUE)
    ELSE Ok(Tick1(B), FALSE)

\* delete_conversation: the children go with the row.
Db_delete_conversation(B, u, cid) ==
    IF Fails(B) THEN Raise(Tick1(B), "SQLAlchemyError")
    ELSE IF B.rows[cid] # NoRow /\ B.rows[cid].user_id = u
    THEN Ok([Tick1(B) EXCEPT !.rows[cid] = NoRow], TRUE)
    ELSE Ok(Tick1(B), FALSE)

\* add_message
Db_add_message(B, u, role, content, cid, t) ==
    LET g == Db_get_conversation(B, u, cid, t)
        c == IF g.exc = "none" /\ g.val = None
             THEN Db_create_conversation(g.B, u, cid, t) ELSE g
    IN IF c.exc # "none" THEN c
       ELSE LET a == add_message(c.val, role, content, t)
            IN IF a.exc # "none" THEN Raise(c.B, a.exc)
               ELSE LET w == Db_save_conversation(c.B, a.conv, t)
                    IN IF w.exc # "none" THEN w ELSE Ok(w.B, a.message)

\* get_context_messages
Db_get_context_messages(B, u, cid, include_summary, t) ==
    LET g == Db_get_conversation(B, u, cid, t)
    IN IF g.exc # "none" THEN g
       ELSE IF g.val = None THEN Ok(g.B, <<>>)
       ELSE LET r == get_recent_context(g.val, include_summary, t)
            IN IF r.exc # "none" THEN Raise(g.B, r.exc) ELSE Ok(g.B, r.val)

\* create_summary
Db_create_summary(B, u, cid, summary, t) ==
    LET g == Db_get_conversation(B, u, cid, t)
    IN IF g.exc # "none" THEN g
       ELSE IF g.val = None THEN Raise(g.B, "ValueError")
       ELSE LET sm == ConversationSummary(summary, Len(g.val.messages), t)
                w == Db_save_conversation(
                         g.B, [g.val EXCEPT !.summaries = Append(@, sm)], t)
            IN IF w.exc # "none" THEN w ELSE Ok(w.B, sm)

\* get_user_stats: counts over the tables.
Db_get_user_stats(B, u) ==
    IF Fails(B) THEN Raise(Tick1(B), "SQLAlchemyError")
    ELSE LET all == DbConversationsOf(B, u, FALSE)
         IN Ok(Tick1(B),
               ConversationStats(u, Len(all), SumMessages(all),
                                 Len(DbConversationsOf(B, u, TRUE)),
                                 IF all # <<>> THEN all[1].updated_at ELSE None))

\* cleanup_old_data that does not look at is_active (used to test C8).
Db_cleanup_old_data_AnyState(B, days, t) ==
    IF Fails(B) THEN Raise(Tick1(B), "SQLAlchemyError")
    ELSE LET old == {c \in ConvIds : /\ B.rows[c] # NoRow
                                     /\ B.rows[c].updated_at < t - days}
         IN Ok([Tick1(B) EXCEPT !.rows = [c \in ConvIds |->
                                            IF c \in old THEN NoRow ELSE B.rows[c]]],
               Cardinality(old))

\* cleanup_old_data: one transaction over all users.
Db_cleanup_old_data(B, days, t) ==
    IF Fails(B) THEN Raise(Tick1(B), "SQLAlchemyError")
    ELSE LET old == {c \in ConvIds : /\ B.rows[c] # NoRow
                                     /\ B.rows[c].updated_at < t - days
                                     /\ ~B.rows[c].is_active}
         IN Ok([Tick1(B) EXCEPT !.rows = [c \in ConvIds |->
                                            IF c \in old THEN NoRow ELSE B.rows[c]]],
               Cardinality(old))

RECURSIVE SumOver(_, _)
SumOver(S, f) ==
    IF S = {} THEN 0
    ELSE LET x == CHOOSE x \in S : TRUE IN f[x] + SumOver(S \ {x}, f)

\* DatabaseManager.health_check: a failure is reported in the result.
Db_health_check(B) ==
    IF Fails(B) THEN Ok(Tick1(B), [healthy |-> FALSE, error |-> "SQLAlchemyError"])
    ELSE LET S == {c \in ConvIds : B.rows[c] # NoRow}
         IN Ok(Tick1(B),
               [healthy |-> TRUE, connection_test |-> TRUE,
                total_conversations |-> Cardinality(S),
                total_messages |-> SumOver(S, [c \in S |-> Len(B.rows[c].messages)]),
                active_conversations |->
                    Cardinality({c \in S : B.rows[c].is_active})])

\* initialize: DatabaseManager.initialize raises RuntimeError on any failure.
Db_initialize(B) ==
    IF Fails(B) THEN Raise(Tick1(B), "RuntimeError") ELSE Ok(Tick1(B), None)

\* shutdown: engine.dispose().
Db_shutdown(B) == Ok(B, None)

(***************************************************************************)
(* The backend the factory selected (factory.py, interface.py).            *)
(***************************************************************************)
Storage_initialize(B) ==
    IF kind = "json" THEN Json_initialize(B) ELSE Db_initialize(B)
Storage_shutdown(B) ==
    IF kind = "json" THEN Json_shutdown(B) ELSE Db_shutdown(B)
Storage_get_conversation(B, u, cid, t) ==
    IF kind = "json" THEN Json_get_conversation(B, u, cid, t)
    ELSE Db_get_conversation(B, u, cid, t)
Storage_add_message(B, u, role, content, cid, t) ==
    IF kind = "json" THEN Json_add_message(B, u, role, content, cid, t)
    ELSE Db_add_message(B, u, role, content, cid, t)
Storage_get_context_messages(B, u, cid, include_summary, t) ==
    IF kind = "json" THEN Json_get_context_messages(B, u, cid, include_summary, t)
    ELSE Db_get_context_messages(B, u, cid, include_summary, t)
Storage_create_summary(B, u, cid, summary, t) ==
    IF kind = "json" THEN Json_create_summary(B, u, cid, summary, t)
    ELSE Db_create_summary(B, u, cid, summary, t)
Storage_archive_conversation(B, u, cid, t) ==
    IF kind = "json" THEN Json_archive_conversation(B, u, cid, t)
    ELSE Db_archive_conversation(B, u, cid, t)
Storage_get_user_stats(B, u) ==
    IF kind = "json" THEN Json_get_user_stats(B, u) ELSE Db_get_user_stats(B, u)
Storage_cleanup_old_data(B, days, t) ==
    IF kind = "json" THEN Json_cleanup_old_data(B, days, t)
    ELSE Db_cleanup_old_data(B, days, t)
Storage_health_check(B) ==
    IF kind = "json" THEN Json_health_check(B) ELSE Db_health_check(B)
Storage_save_conversation(B, conv, t) ==
    IF kind = "json" THEN Json_save_conversation(B, conv, t)
    ELSE Db_save_conversation(B, conv, t)
Storage_create_conversation(B, u, cid, t) ==
    IF kind = "json" THEN Json_create_conversation(B, u, cid, t)
    ELSE Db_create_conversation(B, u, cid, t)
Storage_delete_conversation(B, u, cid) ==
    IF kind = "json" THEN Json_delete_conversation(B, u, cid)
    ELSE Db_delete_conversation(B, u, cid)
Storage_list_conversations(B, u, limit, offset) ==
    IF kind = "json" THEN Json_list_conversations(B, u, limit, offset)
    ELSE Db_list_conversations(B, u, limit, offset)

(***************************************************************************)
(* Conversation Manager (manager.py).  enabled = storage is not None.      *)
(***************************************************************************)
enabled == kind # "none"

Return(B, val) == [B |-> B, val |-> val, raised |-> FALSE]
Escapes(B, exc) == [B |-> B, val |-> exc, raised |-> TRUE]

\* initialize: no try/except around storage.initialize().
Mgr_initialize(B) ==
    IF ~enabled THEN Return(B, None)
    ELSE LET r == Storage_initialize(B)
         IN IF r.exc # "none" THEN Escapes(r.B, r.exc) ELSE Return(r.B, None)

\* shutdown: no try/except around storage.shutdown().
Mgr_shutdown(B) ==
    IF ~enabled THEN Return(B, None)
    ELSE LET r == Storage_shutdown(B)
         IN IF r.exc # "none" THEN Escapes(r.B, r.exc) ELSE Return(r.B, None)

\* add_user_message without the check of self.enabled (used to test C4).
Mgr_add_message_Unguarded(B, u, role, content, t) ==
    LET r == Storage_add_message(B, u, role, content, NoId, t)
    IN Return(r.B, r.exc = "none")

\* add_user_message / add_assistant_message differ in the role only.
Mgr_add_message(B, u, role, content, t) ==
    IF ~enabled THEN Return(B, FALSE)
    ELSE LET r == Storage_add_message(B, u, role, content, NoId, t)
         IN Return(r.B, r.exc = "none")

Mgr_add_user_message(B, u, content, t) == Mgr_add_message(B, u, "user", content, t)

Mgr_add_assistant_message(B, u, content, t) ==
    Mgr_add_message(B, u, "assistant", content, t)

\* get_conversation_context
Mgr_get_conversation_context(B, u, t) ==
    IF ~enabled THEN Return(B, <<>>)
    ELSE LET r == Storage_get_context_messages(B, u, NoId, TRUE, t)
         IN Return(r.B, IF r.exc = "none" THEN r.val ELSE <<>>)

\* should_summarize_conversation
Mgr_should_summarize_conversation(B, u, t) ==
    IF ~enabled THEN Return(B, FALSE)
    ELSE LET g == Storage_get_conversation(B, u, NoId, t)
         IN IF g.exc # "none" \/ g.val = None THEN Return(g.B, FALSE)
            ELSE Return(g.B, should_summarize(g.val, auto_summarize_threshold))

\* create_conversation_summary
Mgr_create_conversation_summary(B, u, summary, t) ==
    IF ~enabled THEN Return(B, FALSE)
    ELSE LET g == Storage_get_conversation(B, u, NoId, t)
         IN IF g.exc # "none" \/ g.val = None THEN Return(g.B, FALSE)
            ELSE LET r == Storage_create_summary(g.B, u, g.val.conversation_id,
                                                 summary, t)
                 IN Return(r.B, r.exc = "none")

\* clear_conversation_history reporting success when there was nothing to
\* archive (used to test C10).
Mgr_clear_conversation_history_AlwaysTrue(B, u, t) ==
    IF ~enabled THEN Return(B, FALSE)
    ELSE LET g == Storage_get_conversation(B, u, NoId, t)
         IN IF g.exc # "none" THEN Return(g.B, FALSE)
            ELSE IF g.val = None THEN Return(g.B, TRUE)
            ELSE LET r == Storage_archive_conversation(g.B, u, g.val.conversation_id, t)
                 IN Return(r.B, r.exc = "none")

\* clear_conversation_history: what archive_conversation returns is not looked at.
Mgr_clear_conversation_history(B, u, t) ==
    IF ~enabled THEN Return(B, FALSE)
    ELSE LET g == Storage_get_conversation(B, u, NoId, t)
         IN IF g.exc # "none" \/ g.val = None THEN Return(g.B, FALSE)
            ELSE LET r == Storage_archive_conversation(g.B, u, g.val.conversation_id, t)
                 IN Return(r.B, r.exc = "none")

\* get_user_stats
Mgr_get_user_stats(B, u) ==
    IF ~enabled THEN Return(B, None)
    ELSE LET r == Storage_get_user_stats(B, u)
         IN Return(r.B, IF r.exc = "none" THEN r.val ELSE None)

\* cleanup_old_conversations
Mgr_cleanup_old_conversations(B, t) ==
    IF ~enabled THEN Return(B, 0)
    ELSE LET r == Storage_cleanup_old_data(B, cleanup_old_data_days, t)
         IN Return(r.B, IF r.exc = "none" THEN r.val ELSE 0)

\* health_check
Mgr_health_check(B) ==
    IF ~enabled
    THEN Return(B, [enabled |-> FALSE, healthy |-> TRUE,
                    message |-> "Persistence disabled"])
    ELSE LET r == Storage_health_check(B)
         IN Return(r.B, IF r.exc = "none"
                        THEN [x \in DOMAIN r.val \cup {"enabled"} |->
                                 IF x = "enabled" THEN TRUE ELSE r.val[x]]
                        ELSE [enabled |-> TRUE, healthy |-> FALSE, error |-> r.exc])

(***************************************************************************)
(* Actions: one per public Manager method, plus the clock.  A call is one  *)
(* step; what it returns is the val of the Mgr_ operator on the state it   *)
(* was made in.                                                            *)
(***************************************************************************)
MessageInputs == {Hello, Blank, Empty, TooLong}
SummaryInputs == {ShortSummary, LongSummary}
ContextWindows == {0, 1, DefaultContextWindow}
FaultPositions == 0..3

\* The bounds: conversations ever created, and messages and summaries held
\* by the medium, each conversation counted where it is longest.
Longest(B, cid, field) ==
    LET f == IF B.files[cid] = NoFile \/ B.files[cid] = Corrupt(B.files[cid].user_id)
             THEN 0 ELSE Len(B.files[cid][field])
        c == IF B.cache[cid] = NoEntry THEN 0 ELSE Len(B.cache[cid].conv[field])
        r == IF B.rows[cid] = NoRow THEN 0 ELSE Len(B.rows[cid][field])
        m == IF f >= c THEN f ELSE c
    IN IF m >= r THEN m ELSE r

Bounded(B) ==
    /\ B.nextId <= MaxConvs
    /\ SumOver(ConvIds, [cid \in ConvIds |-> Longest(B, cid, "messages")]) <= MaxMsgs
    /\ SumOver(ConvIds, [cid \in ConvIds |-> Longest(B, cid, "summaries")]) <= MaxSums

\* A call returned r; with k > 0 the injected fault did strike.
Do(r, k) ==
    /\ k > 0 => (faults < MaxFaults /\ r.B.fault = 0)
    /\ Bounded(r.B)
    /\ files' = r.B.files
    /\ dirs' = r.B.dirs
    /\ cache' = r.B.cache
    /\ rows' = r.B.rows
    /\ nextId' = r.B.nextId
    /\ faults' = IF k > 0 THEN faults + 1 ELSE faults
    /\ raised' = r.raised
    /\ UNCHANGED <<kind, now, lock, running, tasks>>

Initialize(k) ==
    /\ phase = "constructed"
    /\ \E r \in {Mgr_initialize(Storage(k, FALSE))} :
          /\ Do(r, k)
          /\ phase' = IF r.raised THEN "constructed" ELSE "running"

Shutdown(k, torn) ==
    /\ phase = "running"
    /\ \E r \in {Mgr_shutdown(Storage(k, torn))} :
          /\ Do(r, k)
          /\ phase' = IF r.raised THEN "running" ELSE "stopped"

AddUserMessage(u, content, k, torn) ==
    /\ phase = "running"
    /\ \E r \in {Mgr_add_user_message(Storage(k, torn), u, content, now)} : Do(r, k)
    /\ UNCHANGED phase

AddAssistantMessage(u, content, k, torn) ==
    /\ phase = "running"
    /\ \E r \in {Mgr_add_assistant_message(Storage(k, torn), u, content, now)} : Do(r, k)
    /\ UNCHANGED phase

GetConversationContext(u, k) ==
    /\ phase = "running"
    /\ \E r \in {Mgr_get_conversation_context(Storage(k, FALSE), u, now)} : Do(r, k)
    /\ UNCHANGED phase

ShouldSummarizeConversation(u, k) ==
    /\ phase = "running"
    /\ \E r \in {Mgr_should_summarize_conversation(Storage(k, FALSE), u, now)} : Do(r, k)
    /\ UNCHANGED phase

CreateConversationSummary(u, summary, k, torn) ==
    /\ phase = "running"
    /\ \E r \in {Mgr_create_conversation_summary(Storage(k, torn), u, summary, now)} :
          Do(r, k)
    /\ UNCHANGED phase

ClearConversationHistory(u, k, torn) ==
    /\ phase = "running"
    /\ \E r \in {Mgr_clear_conversation_history(Storage(k, torn), u, now)} : Do(r, k)
    /\ UNCHANGED phase

GetUserStats(u, k) ==
    /\ phase = "running"
    /\ \E r \in {Mgr_get_user_stats(Storage(k, FALSE), u)} : Do(r, k)
    /\ UNCHANGED phase

CleanupOldConversations(k) ==
    /\ phase = "running"
    /\ \E r \in {Mgr_cleanup_old_conversations(Storage(k, FALSE), now)} : Do(r, k)
    /\ UNCHANGED phase

HealthCheck(k) ==
    /\ phase = "running"
    /\ \E r \in {Mgr_health_check(Storage(k, FALSE))} : Do(r, k)
    /\ UNCHANGED phase

\* A caller of the storage interface stores the active conversation of u with
\* the context window w: get_conversation(u), then save_conversation.
SaveConversation(u, w) ==
    /\ phase = "running"
    /\ enabled
    /\ \E g \in {Storage_get_conversation(Storage(0, FALSE), u, NoId, now)} :
          /\ g.val # None
          /\ \E r \in {Storage_save_conversation(
                           g.B, [g.val EXCEPT !.context_window_size = w], now)} :
                 Do(Return(r.B, None), 0)
    /\ UNCHANGED phase

\* A caller of the storage interface asks for the context of u.
GetContextMessages(u, include_summary) ==
    /\ phase = "running"
    /\ enabled
    /\ \E r \in {Storage_get_context_messages(Storage(0, FALSE), u, NoId,
                                              include_summary, now)} :
          Do(Return(r.B, None), 0)
    /\ UNCHANGED phase

\* The storage interface called directly.  A conversation id a caller passes
\* is one that an earlier call handed out; the store is keyed by it alone, so
\* a caller creates or writes under an id only where no other user's record
\* sits under it.
HeldByOther(B, u, cid) ==
    \/ B.files[cid] # NoFile /\ B.files[cid].user_id # u
    \/ B.cache[cid] # NoEntry /\ B.cache[cid].conv.user_id # u
    \/ B.rows[cid] # NoRow /\ B.rows[cid].user_id # u

IssuedIds == 1..nextId
WritableIds(u) == {NoId} \cup {cid \in IssuedIds : ~HeldByOther(Storage(0, FALSE), u, cid)}

\* What a call of the storage interface leaves behind, failed or not.
Called(r) ==
    /\ phase = "running"
    /\ enabled
    /\ Do(Return(r.B, None), 0)
    /\ UNCHANGED phase

GetConversation(u, cid) ==
    \E r \in {Storage_get_conversation(Storage(0, FALSE), u, cid, now)} : Called(r)

CreateConversation(u, cid) ==
    /\ cid \in WritableIds(u)
    /\ \E r \in {Storage_create_conversation(Storage(0, FALSE), u, cid, now)} : Called(r)

ListConversations(u) ==
    \E r \in {Storage_list_conversations(Storage(0, FALSE), u, 10, 0)} : Called(r)

ArchiveConversation(u, cid) ==
    \E r \in {Storage_archive_conversation(Storage(0, FALSE), u, cid, now)} : Called(r)

DeleteConversation(u, cid) ==
    \E r \in {Storage_delete_conversation(Storage(0, FALSE), u, cid)} : Called(r)

AddMessage(u, content, cid) ==
    /\ cid \in WritableIds(u)
    /\ \E r \in {Storage_add_message(Storage(0, FALSE), u, "user", content, cid, now)} :
           Called(r)

CreateSummary(u, cid, summary) ==
    \E r \in {Storage_create_summary(Storage(0, FALSE), u, cid, summary, now)} : Called(r)

CleanupOldData(days) ==
    \E r \in {Storage_cleanup_old_data(Storage(0, FALSE), days, now)} : Called(r)

\* A file backend and a relational backend side by side, given the same
\* call: j is what the file backend returned, d what the relational one did.
\* uuid4() is the same serial in both.
Both(j, d) ==
    /\ kind = "both"
    /\ phase = "running"
    /\ Do(Return([files |-> j.B.files, dirs |-> j.B.dirs, cache |-> j.B.cache,
                  rows |-> d.B.rows,
                  nextId |-> IF j.B.nextId >= d.B.nextId
                             THEN j.B.nextId ELSE d.B.nextId,
                  fault |-> 0, torn |-> FALSE], None), 0)
    /\ UNCHANGED phase

BothInitialize ==
    /\ kind = "both"
    /\ phase = "constructed"
    /\ Json_initialize(Storage(0, FALSE)).exc = "none"
    /\ Db_initialize(Storage(0, FALSE)).exc = "none"
    /\ phase' = "running"
    /\ UNCHANGED <<kind, now, files, dirs, cache, rows, nextId, faults, raised,
                   lock, running, tasks>>

BothGetConversation(u, cid) ==
    Both(Json_get_conversation(Storage(0, FALSE), u, cid, now),
         Db_get_conversation(Storage(0, FALSE), u, cid, now))

BothCreateConversation(u, cid) ==
    /\ cid \in WritableIds(u)
    /\ Both(Json_create_conversation(Storage(0, FALSE), u, cid, now),
            Db_create_conversation(Storage(0, FALSE), u, cid, now))

BothListConversations(u) ==
    Both(Json_list_conversations(Storage(0, FALSE), u, 10, 0),
         Db_list_conversations(Storage(0, FALSE), u, 10, 0))

BothArchiveConversation(u, cid) ==
    Both(Json_archive_conversation(Storage(0, FALSE), u, cid, now),
         Db_archive_conversation(Storage(0, FALSE), u, cid, now))

BothDeleteConversation(u, cid) ==
    Both(Json_delete_conversation(Storage(0, FALSE), u, cid),
         Db_delete_conversation(Storage(0, FALSE), u, cid))

BothAddMessage(u, content, cid) ==
    /\ cid \in WritableIds(u)
    /\ Both(Json_add_message(Storage(0, FALSE), u, "user", content, cid, now),
            Db_add_message(Storage(0, FALSE), u, "user", content, cid, now))

BothGetContextMessages(u, cid) ==
    Both(Json_get_context_messages(Storage(0, FALSE), u, cid, TRUE, now),
         Db_get_context_messages(Storage(0, FALSE), u, cid, TRUE, now))

BothCreateSummary(u, cid, summary) ==
    Both(Json_create_summary(Storage(0, FALSE), u, cid, summary, now),
         Db_create_summary(Storage(0, FALSE), u, cid, summary, now))

BothGetUserStats(u) ==
    Both(Json_get_user_stats(Storage(0, FALSE), u),
         Db_get_user_stats(Storage(0, FALSE), u))

BothCleanupOldData(days) ==
    Both(Json_cleanup_old_data(Storage(0, FALSE), days, now),
         Db_cleanup_old_data(Storage(0, FALSE), days, now))

(***************************************************************************)
(* The file backend's calls as tasks of one event loop (json_storage.py).  *)
(* A call is a sequence of regions; a region of "async with self._lock" is *)
(* entered by acquiring the lock and left by releasing it, and its body    *)
(* makes no await that suspends (pathlib and open() block).  The loop runs *)
(* one task at a time and takes another only when the running one suspends *)
(* or returns; asyncio.Lock.acquire suspends only when the lock is taken.  *)
(***************************************************************************)
TaskOps == {"add_message", "create_summary", "archive_conversation",
            "get_conversation", "list_conversations", "get_user_stats",
            "health_check", "cleanup_old_data", "delete_conversation", "shutdown"}

\* The first region of each operation.
FirstRegion(op) ==
    IF op \in {"add_message", "create_summary", "archive_conversation",
               "get_conversation"} THEN "get"
    ELSE IF op \in {"list_conversations", "get_user_stats", "health_check"}
    THEN "scan"
    ELSE IF op = "cleanup_old_data" THEN "sweep"
    ELSE IF op = "delete_conversation" THEN "unlink"
    ELSE "flush"

\* Regions whose mutex is released on return only where the region is the
\* first one of its operation (used to test C40).
Locked_FirstOnly(pc) == pc \in {"get", "sweep", "unlink", "flush"}

\* The regions written as "async with self._lock".
Locked(pc) == pc \in {"get", "create", "save", "sweep", "unlink", "flush"}

\* An acquire that always gives the loop to the other tasks first (used to
\* test C25).
Suspends_Always(l) == TRUE

\* asyncio.Lock.acquire: the caller is suspended only when the lock is taken.
Suspends(l) == l # NoTask

\* What the operation does to the conversation it read, before saving it.
Mutated(k, conv) ==
    IF k.op = "add_message" THEN add_message(conv, "user", Hello, now).conv
    ELSE IF k.op = "create_summary"
    THEN [conv EXCEPT !.summaries =
              Append(@, ConversationSummary(ShortSummary, Len(conv.messages), now))]
    ELSE [conv EXCEPT !.is_active = FALSE]

\* The body of the region task k is at.
Body(B, k) ==
    IF k.pc = "get" THEN Json_get_conversation(B, k.u, k.cid, now)
    ELSE IF k.pc = "create" THEN Json_create_conversation(B, k.u, k.cid, now)
    ELSE IF k.pc = "save" THEN Json_save_conversation(B, k.conv, now)
    ELSE IF k.pc = "sweep" THEN Json_cleanup_old_data(B, cleanup_old_data_days, now)
    ELSE IF k.pc = "unlink" THEN Json_delete_conversation(B, k.u, k.cid)
    ELSE IF k.pc = "flush" THEN Json_shutdown(B)
    ELSE IF k.op = "list_conversations"
    THEN Json_list_conversations(B, k.u, 10, 0)
    ELSE IF k.op = "get_user_stats" THEN Json_get_user_stats(B, k.u)
    ELSE Json_health_check(B)

\* Where task k goes once the body of its region returned r.
After(k, r) ==
    IF r.exc # "none" THEN Idle
    ELSE IF k.pc = "get" /\ k.op # "get_conversation"
    THEN IF r.val # None
         THEN [k EXCEPT !.pc = "save", !.at = "acquire", !.conv = Mutated(k, r.val)]
         ELSE IF k.op = "add_message"
         THEN [k EXCEPT !.pc = "create", !.at = "acquire"]
         ELSE Idle
    ELSE IF k.pc = "create"
    THEN [k EXCEPT !.pc = "save", !.at = "acquire", !.conv = Mutated(k, r.val)]
    ELSE Idle

\* How many calls of operation op are in flight.
Pending(op) == Cardinality({t \in Tasks : tasks[t].op = op})

\* A caller starts a call; it runs when the loop takes it.
Spawn(t, op, u, cid) ==
    /\ kind = "json"
    /\ phase = "running"
    /\ running = NoTask
    /\ tasks[t] = Idle
    /\ op = "add_message" =>
           /\ \/ nextId + Pending("add_message") < MaxConvs
              \/ /\ Json_list_conversations_from_disk(Storage(0, FALSE), u, TRUE) # <<>>
                 /\ Pending("archive_conversation") = 0
                 /\ Pending("delete_conversation") = 0
           /\ SumOver(ConvIds, [c \in ConvIds |-> Longest(Storage(0, FALSE), c, "messages")])
                  + Pending("add_message") < MaxMsgs
    /\ op = "create_summary" =>
           SumOver(ConvIds, [c \in ConvIds |-> Longest(Storage(0, FALSE), c, "summaries")])
               + Pending("create_summary") < MaxSums
    /\ op \in {"archive_conversation", "delete_conversation"} =>
           nextId + Pending("add_message") <= MaxConvs
    /\ tasks' = [tasks EXCEPT ![t] =
                     [op |-> op, pc |-> FirstRegion(op),
                      at |-> IF Locked(FirstRegion(op)) THEN "acquire" ELSE "inside",
                      u |-> u, cid |-> cid, conv |-> None]]
    /\ UNCHANGED <<kind, phase, now, files, dirs, cache, rows, nextId, faults,
                   raised, lock, running>>

\* The loop executes the next step of task t: the acquire of its region, the
\* wake-up of an acquire that was suspended, or the body of the region with
\* the release that follows it.
Step(t) ==
    /\ kind = "json"
    /\ phase \in {"running", "stopped"}
    /\ tasks[t] # Idle
    /\ running \in {NoTask, t}
    /\ LET k == tasks[t]
       IN IF k.at = "acquire"
          THEN /\ IF Suspends(lock)
                  THEN /\ tasks' = [tasks EXCEPT ![t].at = "waiting"]
                       /\ running' = NoTask
                       /\ UNCHANGED lock
                  ELSE /\ tasks' = [tasks EXCEPT ![t].at = "inside"]
                       /\ running' = t
                       /\ lock' = t
               /\ UNCHANGED <<kind, phase, now, files, dirs, cache, rows, nextId,
                              faults, raised>>
          ELSE IF k.at = "waiting"
          THEN /\ lock = NoTask
               /\ tasks' = [tasks EXCEPT ![t].at = "inside"]
               /\ running' = t
               /\ lock' = t
               /\ UNCHANGED <<kind, phase, now, files, dirs, cache, rows, nextId,
                              faults, raised>>
          ELSE \E r \in {Body(Storage(0, FALSE), k)} :
                   /\ Bounded(r.B)
                   /\ files' = r.B.files
                   /\ dirs' = r.B.dirs
                   /\ cache' = r.B.cache
                   /\ nextId' = r.B.nextId
                   /\ lock' = IF Locked(k.pc) THEN NoTask ELSE lock
                   /\ tasks' = [tasks EXCEPT ![t] = After(k, r)]
                   /\ running' = IF After(k, r) = Idle THEN NoTask ELSE t
                   /\ phase' = IF k.pc = "flush" THEN "stopped" ELSE phase
                   /\ UNCHANGED <<kind, now, rows, faults, raised>>

\* Time passes between calls; two calls may read the same clock value.
Tick ==
    /\ now < MaxTime
    /\ now' = now + 1
    /\ UNCHANGED <<kind, phase, files, dirs, cache, rows, nextId, faults, raised,
                   lock, running, tasks>>

Init ==
    /\ kind \in {"none", "json", "database"}
    /\ phase = "constructed"
    /\ now = 0
    /\ files = [k \in ConvIds |-> NoFile]
    /\ dirs = {}
    /\ cache = [k \in ConvIds |-> NoEntry]
    /\ rows = [c \in ConvIds |-> NoRow]
    /\ nextId = 0
    /\ faults = 0
    /\ raised = FALSE
    /\ lock = NoTask
    /\ running = NoTask
    /\ tasks = [t \in Tasks |-> Idle]

\* One user talks to the Manager; the storage medium does not fail.
Next ==
    \/ Initialize(0)
    \/ Shutdown(0, FALSE)
    \/ \E c \in MessageInputs : AddUserMessage("u1", c, 0, FALSE)
    \/ \E c \in MessageInputs : AddAssistantMessage("u1", c, 0, FALSE)
    \/ GetConversationContext("u1", 0)
    \/ ShouldSummarizeConversation("u1", 0)
    \/ \E s \in SummaryInputs : CreateConversationSummary("u1", s, 0, FALSE)
    \/ ClearConversationHistory("u1", 0, FALSE)
    \/ GetUserStats("u1", 0)
    \/ CleanupOldConversations(0)
    \/ HealthCheck(0)
    \/ Tick

Spec == Init /\ [][Next]_vars

\* Several users share the storage; their messages are well-formed.
NextUsers ==
    \/ Initialize(0)
    \/ \E u \in Users : AddUserMessage(u, Hello, 0, FALSE)
    \/ \E u \in Users : AddAssistantMessage(u, Hello, 0, FALSE)
    \/ \E u \in Users : GetConversationContext(u, 0)
    \/ \E u \in Users : CreateConversationSummary(u, ShortSummary, 0, FALSE)
    \/ \E u \in Users : ClearConversationHistory(u, 0, FALSE)
    \/ \E u \in Users : GetUserStats(u, 0)
    \/ CleanupOldConversations(0)
    \/ Tick

SpecUsers == Init /\ [][NextUsers]_vars

\* One user talks to the Manager; one access to the storage medium may fail,
\* and a failed file write may leave a truncated file.
NextFault ==
    \/ \E k \in FaultPositions : Initialize(k)
    \/ \E k \in FaultPositions, torn \in BOOLEAN : Shutdown(k, torn)
    \/ \E k \in FaultPositions, torn \in BOOLEAN : AddUserMessage("u1", Hello, k, torn)
    \/ \E k \in FaultPositions : GetConversationContext("u1", k)
    \/ \E k \in FaultPositions : ShouldSummarizeConversation("u1", k)
    \/ \E k \in FaultPositions, torn \in BOOLEAN :
           CreateConversationSummary("u1", ShortSummary, k, torn)
    \/ \E k \in FaultPositions, torn \in BOOLEAN : ClearConversationHistory("u1", k, torn)
    \/ \E k \in FaultPositions : GetUserStats("u1", k)
    \/ \E k \in FaultPositions : CleanupOldConversations(k)
    \/ \E k \in FaultPositions : HealthCheck(k)
    \/ Tick

SpecFault == Init /\ [][NextFault]_vars

\* The storage interface used directly: conversations stored with a context
\* window of the caller's choice.
NextBackend ==
    \/ Initialize(0)
    \/ AddUserMessage("u1", Hello, 0, FALSE)
    \/ CreateConversationSummary("u1", ShortSummary, 0, FALSE)
    \/ \E w \in ContextWindows : SaveConversation("u1", w)
    \/ \E b \in BOOLEAN : GetContextMessages("u1", b)
    \/ GetConversationContext("u1", 0)
    \/ Tick

SpecBackend == Init /\ [][NextBackend]_vars

\* The storage interface used directly: one user owns conversations, and
\* every user looks them up, archives, deletes and summarizes by id.
NextContract ==
    \/ Initialize(0)
    \/ \E u \in Users, cid \in {NoId} \cup IssuedIds : GetConversation(u, cid)
    \/ \E cid \in {NoId} \cup IssuedIds : CreateConversation("u1", cid)
    \/ \E u \in Users : ListConversations(u)
    \/ \E u \in Users, cid \in IssuedIds : ArchiveConversation(u, cid)
    \/ \E u \in Users, cid \in IssuedIds : DeleteConversation(u, cid)
    \/ \E cid \in {NoId} \cup IssuedIds : AddMessage("u1", Hello, cid)
    \/ \E u \in Users, cid \in IssuedIds : CreateSummary(u, cid, ShortSummary)
    \/ CleanupOldData(cleanup_old_data_days)
    \/ Shutdown(0, FALSE)
    \/ Tick

SpecContract == Init /\ [][NextContract]_vars

\* The two backends start empty and are given the same calls; conversation
\* ids are generated.
InitBoth ==
    /\ kind = "both"
    /\ phase = "constructed"
    /\ now = 0
    /\ files = [k \in ConvIds |-> NoFile]
    /\ dirs = {}
    /\ cache = [k \in ConvIds |-> NoEntry]
    /\ rows = [c \in ConvIds |-> NoRow]
    /\ nextId = 0
    /\ faults = 0
    /\ raised = FALSE
    /\ lock = NoTask
    /\ running = NoTask
    /\ tasks = [t \in Tasks |-> Idle]

NextBoth ==
    \/ BothInitialize
    \/ \E u \in Users, cid \in {NoId} \cup IssuedIds : BothGetConversation(u, cid)
    \/ BothCreateConversation("u1", NoId)
    \/ \E u \in Users : BothListConversations(u)
    \/ \E u \in Users, cid \in IssuedIds : BothArchiveConversation(u, cid)
    \/ \E u \in Users, cid \in IssuedIds : BothDeleteConversation(u, cid)
    \/ \E cid \in {NoId} \cup IssuedIds : BothAddMessage("u1", Hello, cid)
    \/ \E u \in Users, cid \in {NoId} \cup IssuedIds : BothGetContextMessages(u, cid)
    \/ \E u \in Users, cid \in IssuedIds : BothCreateSummary(u, cid, ShortSummary)
    \/ \E u \in Users : BothGetUserStats(u)
    \/ BothCleanupOldData(cleanup_old_data_days)
    \/ Tick

SpecBoth == InitBoth /\ [][NextBoth]_vars

\* The file backend is given its calls as tasks of one event loop.
InitTasks == Init /\ kind = "json"

NextTasks ==
    \/ Initialize(0)
    \/ \E t \in Tasks : Spawn(t, "add_message", "u1", NoId)
    \/ \E t \in Tasks, op \in {"create_summary", "archive_conversation",
                                "get_conversation", "delete_conversation"},
          cid \in IssuedIds : Spawn(t, op, "u1", cid)
    \/ \E t \in Tasks, op \in {"list_conversations", "get_user_stats",
                                "health_check", "cleanup_old_data", "shutdown"} :
          Spawn(t, op, "u1", NoId)
    \/ \E t \in Tasks : Step(t)
    \/ Tick

SpecTasks == InitTasks /\ [][NextTasks]_vars

\* The same calls at one instant of the clock, with a loop that is fair to
\* every task ready to run; asyncio.Lock wakes its waiters in the order they
\* came.
NextLock ==
    \/ Initialize(0)
    \/ \E t \in Tasks : Spawn(t, "add_message", "u1", NoId)
    \/ \E t \in Tasks, op \in {"create_summary", "archive_conversation",
                                "get_conversation", "delete_conversation"},
          cid \in IssuedIds : Spawn(t, op, "u1", cid)
    \/ \E t \in Tasks, op \in {"list_conversations", "get_user_stats",
                                "health_check", "cleanup_old_data", "shutdown"} :
          Spawn(t, op, "u1", NoId)
    \/ \E t \in Tasks : Step(t)

SpecLock == InitTasks /\ [][NextLock]_vars /\ \A t \in Tasks : SF_vars(Step(t))

(***************************************************************************)
(* The agent (ai_agent.py) on the bot's event loop (telegram_bot.py).      *)
(* The application handles one update at a time, so at most one            *)
(* generate_response or /clear handler is in flight; the summary tasks     *)
(* generate_response creates run beside the handlers.  A coroutine         *)
(* suspends at its call of the language model (agent.run) and nowhere in   *)
(* the persistence layer; between two suspensions it runs as one step.     *)
(***************************************************************************)
MaxAgentMsgs == 4

Generating(u) ==
    [op |-> "generate_response", pc |-> "llm", at |-> "awaiting", u |-> u,
     cid |-> NoId, conv |-> None]

Summarizing(u, pc, cid) ==
    [op |-> "_create_conversation_summary", pc |-> pc, at |-> "awaiting", u |-> u,
     cid |-> cid, conv |-> None]

AgentBounded(B) ==
    /\ B.nextId <= MaxConvs
    /\ SumOver(ConvIds, [cid \in ConvIds |-> Longest(B, cid, "messages")]) <= MaxAgentMsgs
    /\ SumOver(ConvIds, [cid \in ConvIds |-> Longest(B, cid, "summaries")]) <= MaxSums

\* What the Manager calls of one step leave behind.
AgentDo(r) ==
    /\ AgentBounded(r.B)
    /\ files' = r.B.files
    /\ dirs' = r.B.dirs
    /\ cache' = r.B.cache
    /\ rows' = r.B.rows
    /\ nextId' = r.B.nextId
    /\ raised' = r.raised
    /\ UNCHANGED <<kind, phase, now, faults, lock, running>>

\* generate_response up to its call of the model: add_user_message, then
\* _build_context_prompt reads the context.
GenStart(t, u) ==
    /\ phase = "running"
    /\ tasks[t] = Idle
    /\ Pending("generate_response") = 0
    /\ \E a \in {Mgr_add_user_message(Storage(0, FALSE), u, Hello, now)} :
          \E r \in {Mgr_get_conversation_context(a.B, u, now)} : AgentDo(r)
    /\ tasks' = [tasks EXCEPT ![t] = Generating(u)]

\* generate_response after the model answered (ok) or raised: the answer is
\* stored, and a summary task is created when the trigger says so.
GenFinish(t, ok) ==
    /\ tasks[t].op = "generate_response"
    /\ IF ok
       THEN \E a \in {Mgr_add_assistant_message(Storage(0, FALSE), tasks[t].u,
                                                Hello, now)} :
                \E s \in {Mgr_should_summarize_conversation(a.B, tasks[t].u, now)} :
                    /\ AgentDo(s)
                    /\ tasks' = [tasks EXCEPT ![t] =
                                    IF s.val THEN Summarizing(tasks[t].u, "start", NoId)
                                    ELSE Idle]
       ELSE /\ tasks' = [tasks EXCEPT ![t] = Idle]
            /\ UNCHANGED <<kind, phase, now, files, dirs, cache, rows, nextId,
                           faults, raised, lock, running>>

\* _create_conversation_summary up to its call of the model: it reads the
\* context of the conversation that is active now.
SumStart(t) ==
    /\ tasks[t].op = "_create_conversation_summary"
    /\ tasks[t].pc = "start"
    /\ \E r \in {Mgr_get_conversation_context(Storage(0, FALSE), tasks[t].u, now)} :
          /\ AgentDo(r)
          /\ tasks' = [tasks EXCEPT ![t] =
                IF r.val = <<>> THEN Idle
                ELSE Summarizing(tasks[t].u, "llm",
                        Storage_get_conversation(Storage(0, FALSE), tasks[t].u,
                                                 NoId, now).val.conversation_id)]

\* _create_conversation_summary after the model answered (ok) or raised: the
\* summary goes to create_conversation_summary(user_id, ...).
SumRecord(t, ok) ==
    /\ tasks[t].op = "_create_conversation_summary"
    /\ tasks[t].pc = "llm"
    /\ IF ok
       THEN \E r \in {Mgr_create_conversation_summary(Storage(0, FALSE), tasks[t].u,
                                                      ShortSummary, now)} : AgentDo(r)
       ELSE UNCHANGED <<kind, phase, now, files, dirs, cache, rows, nextId,
                        faults, raised, lock, running>>
    /\ tasks' = [tasks EXCEPT ![t] = Idle]

\* clear_history_command: a handler of its own, run between two messages.
ClearHistory(u) ==
    /\ phase = "running"
    /\ Pending("generate_response") = 0
    /\ \E r \in {Mgr_clear_conversation_history(Storage(0, FALSE), u, now)} : AgentDo(r)
    /\ UNCHANGED tasks

NextAgent ==
    \/ Initialize(0)
    \/ \E t \in Tasks, u \in Users : GenStart(t, u)
    \/ \E t \in Tasks, ok \in BOOLEAN : GenFinish(t, ok)
    \/ \E t \in Tasks : SumStart(t)
    \/ \E t \in Tasks, ok \in BOOLEAN : SumRecord(t, ok)
    \/ \E u \in Users : ClearHistory(u)
    \/ Tick

SpecAgent == Init /\ [][NextAgent]_vars

(***************************************************************************)
(* Properties.  A call's result is the Mgr_ or Storage_ operator applied   *)
(* to the storage as it is (Cur); its effect is the storage B it returns,  *)
(* which the action commits.                                               *)
(***************************************************************************)
Cur == Storage(0, FALSE)

\* The conversation the medium holds under id cid, or None.
StoredIn(B, cid) ==
    IF kind = "json"
    THEN (IF B.files[cid] = NoFile \/ B.files[cid] = Corrupt(B.files[cid].user_id)
          THEN None ELSE B.files[cid])
    ELSE IF kind = "database"
    THEN (IF B.rows[cid] = NoRow THEN None ELSE B.rows[cid])
    ELSE None

IdsOf(B, u) ==
    {cid \in ConvIds : StoredIn(B, cid) # None /\ StoredIn(B, cid).user_id = u}

ActiveIdsOf(B, u) == {cid \in IdsOf(B, u) : StoredIn(B, cid).is_active}

Serving == enabled /\ phase = "running"

Min(a, b) == IF a <= b THEN a ELSE b

RawCount(ctx) == Cardinality({i \in 1..Len(ctx) : ctx[i].role # "system"})

LastSummary(c) == c.summaries[Len(c.summaries)]

\* Messages appended after the last Summary was recorded.
Further(c) == Len(c.messages) - LastSummary(c).message_count

\* Those of them stamped later than the Summary.
LaterFurther(c) ==
    Cardinality({i \in (LastSummary(c).message_count + 1)..Len(c.messages) :
                     c.messages[i].timestamp > LastSummary(c).created_at})

\* C1: for any stored conversation, whatever its context_window_size (0
\* included), get_context_messages returns at most context_window_size raw
\* messages (the summary entry not counted).
C1_ContextBound ==
    Serving =>
        \A u \in Users, b \in BOOLEAN : \A cid \in ActiveIdsOf(Cur, u) :
            LET r == Storage_get_context_messages(Cur, u, NoId, b, now)
            IN r.exc = "none" =>
                   RawCount(r.val) <= StoredIn(Cur, cid).context_window_size

\* C2: get_conversation_context(u) is, for u's active conversation, one
\* system entry built from the Summary with the greatest created_at (when a
\* Summary exists) followed by exactly the last min(context_window_size,
\* len(messages)) messages in stored order; it is empty when u has no active
\* conversation.
C2_ContextShape ==
    Serving =>
        \A u \in Users :
            LET ctx == Mgr_get_conversation_context(Cur, u, now).val
                act == ActiveIdsOf(Cur, u)
            IN IF act = {} THEN ctx = <<>>
               ELSE \A cid \in act :
                        LET c == StoredIn(Cur, cid)
                            n == Len(c.messages)
                            w == Min(c.context_window_size, n)
                            window == SubSeq(c.messages, n - w + 1, n)
                        IN IF c.summaries = <<>> THEN ctx = window
                           ELSE /\ Len(ctx) = 1 + w
                                /\ ctx[1].role = "system"
                                /\ \E i \in 1..Len(c.summaries) :
                                       /\ \A j \in 1..Len(c.summaries) :
                                              c.summaries[j].created_at
                                                  <= c.summaries[i].created_at
                                       /\ ctx[1].timestamp = c.summaries[i].created_at
                                       /\ ctx[1].content.txt = c.summaries[i].summary.txt
                                /\ SubSeq(ctx, 2, Len(ctx)) = window

\* C3 as claimed: with threshold T, should_summarize_conversation is true once
\* T messages are there and no Summary; after a Summary is recorded it is
\* false while fewer than T \div 2 further messages have been appended and
\* true once T \div 2 or more further messages have been appended.
C3_HysteresisByCount ==
    Serving =>
        \A u \in Users : \A cid \in ActiveIdsOf(Cur, u) :
            LET c == StoredIn(Cur, cid)
                T == auto_summarize_threshold
                s == Mgr_should_summarize_conversation(Cur, u, now).val
            IN /\ (c.summaries = <<>> /\ Len(c.messages) >= T) => s
               /\ (c.summaries # <<>> /\ LastSummary(c).message_count >= T) =>
                      (s <=> Further(c) >= T \div 2)

\* C3: with threshold T, should_summarize_conversation is true once T
\* messages are there and no Summary; after a Summary is recorded it is false
\* while fewer than T \div 2 further messages have been appended, and it is
\* true exactly when T \div 2 or more of the further messages carry a
\* timestamp later than the Summary's created_at.
C3_Hysteresis ==
    Serving =>
        \A u \in Users : \A cid \in ActiveIdsOf(Cur, u) :
            LET c == StoredIn(Cur, cid)
                T == auto_summarize_threshold
                s == Mgr_should_summarize_conversation(Cur, u, now).val
            IN /\ (c.summaries = <<>> /\ Len(c.messages) >= T) => s
               /\ (c.summaries # <<>> /\ LastSummary(c).message_count >= T) =>
                      /\ Further(c) < T \div 2 => ~s
                      /\ s <=> LaterFurther(c) >= T \div 2

\* A Summary was recorded at the threshold, later messages followed, and the
\* trigger is on again.
C3_Witness ==
    /\ Serving
    /\ \E u \in Users : \E cid \in ActiveIdsOf(Cur, u) :
           LET c == StoredIn(Cur, cid)
           IN /\ c.summaries # <<>>
              /\ LastSummary(c).message_count >= auto_summarize_threshold
              /\ LaterFurther(c) >= auto_summarize_threshold \div 2
              /\ Mgr_should_summarize_conversation(Cur, u, now).val

\* C4: with persistence disabled every Manager operation returns its no-op
\* default, and no sequence of operations changes any stored state.
C4_DisabledNoOp ==
    kind = "none" =>
        /\ files = [k \in ConvIds |-> NoFile]
        /\ rows = [c \in ConvIds |-> NoRow]
        /\ cache = [k \in ConvIds |-> NoEntry]
        /\ dirs = {}
        /\ nextId = 0
        /\ ~raised
        /\ Mgr_initialize(Cur) = Return(Cur, None)
        /\ Mgr_shutdown(Cur) = Return(Cur, None)
        /\ \A u \in Users :
               /\ \A c \in MessageInputs \cup {Padded} :
                      /\ Mgr_add_user_message(Cur, u, c, now) = Return(Cur, FALSE)
                      /\ Mgr_add_assistant_message(Cur, u, c, now) = Return(Cur, FALSE)
               /\ Mgr_should_summarize_conversation(Cur, u, now) = Return(Cur, FALSE)
               /\ \A sm \in SummaryInputs :
                      Mgr_create_conversation_summary(Cur, u, sm, now)
                          = Return(Cur, FALSE)
               /\ Mgr_clear_conversation_history(Cur, u, now) = Return(Cur, FALSE)
               /\ Mgr_get_conversation_context(Cur, u, now) = Return(Cur, <<>>)
               /\ Mgr_get_user_stats(Cur, u) = Return(Cur, None)
        /\ Mgr_cleanup_old_conversations(Cur, now) = Return(Cur, 0)
        /\ Mgr_health_check(Cur).val.enabled = FALSE
        /\ Mgr_health_check(Cur).B = Cur

\* A disabled Manager has been initialized, used for a while and shut down.
C4_Witness == kind = "none" /\ phase = "stopped" /\ now > 0

\* C5: no backend failure escapes a public Manager method, initialize and
\* shutdown included.
C5_NoFailureEscapes == ~raised

\* C6: a successful add_user_message (add_assistant_message) for u appends
\* exactly one message with role user (assistant) at the end of u's active
\* conversation, created first when u has none; that conversation's message
\* count grows by 1 and no other conversation changes.
C6_AddAppendsOne ==
    Serving =>
        \A u \in Users, role \in {"user", "assistant"},
           content \in MessageInputs \cup {Padded} :
            LET r == IF role = "user"
                     THEN Mgr_add_user_message(Cur, u, content, now)
                     ELSE Mgr_add_assistant_message(Cur, u, content, now)
                act == ActiveIdsOf(Cur, u)
            IN r.val = TRUE =>
                   \E cid \in ConvIds :
                       /\ IF act = {} THEN StoredIn(Cur, cid) = None ELSE cid \in act
                       /\ StoredIn(r.B, cid) # None
                       /\ LET new == StoredIn(r.B, cid)
                              was == IF act = {} THEN UserConversation(u, cid, now)
                                     ELSE StoredIn(Cur, cid)
                          IN /\ new.user_id = u
                             /\ new.is_active
                             /\ Len(new.messages) = Len(was.messages) + 1
                             /\ SubSeq(new.messages, 1, Len(was.messages)) = was.messages
                             /\ new.messages[Len(new.messages)].role = role
                             /\ new.messages[Len(new.messages)].content = Strip(content)
                             /\ new.summaries = was.summaries
                       /\ \A other \in ConvIds \ {cid} :
                              StoredIn(r.B, other) = StoredIn(Cur, other)

\* An assistant message was appended to a conversation that had a message,
\* while another user has a conversation of their own.
C6_Witness ==
    /\ Serving
    /\ \E cid, other \in ConvIds :
           /\ StoredIn(Cur, cid) # None
           /\ StoredIn(Cur, other) # None
           /\ StoredIn(Cur, other).user_id # StoredIn(Cur, cid).user_id
           /\ LET m == StoredIn(Cur, cid).messages
              IN Len(m) >= 2 /\ m[Len(m)].role = "assistant"

\* C7: get_user_stats(u) is the aggregate over all stored conversations of
\* u, archived ones included: their number, the sum of their message counts,
\* the number of active ones (never more than their number).
C7_StatsAggregate ==
    Serving =>
        \A u \in Users :
            LET st == Mgr_get_user_stats(Cur, u).val
                ids == IdsOf(Cur, u)
            IN /\ st # None
               /\ st.total_conversations = Cardinality(ids)
               /\ st.total_messages
                      = SumOver(ids, [c \in ids |-> Len(StoredIn(Cur, c).messages)])
               /\ st.active_conversations = Cardinality(ActiveIdsOf(Cur, u))
               /\ st.active_conversations <= st.total_conversations

\* One user message then one assistant message for a new user: 2 messages,
\* 1 conversation, 1 active; and a state with an archived conversation counted.
C7_Witness ==
    /\ Serving
    /\ \E u \in Users :
           LET st == Mgr_get_user_stats(Cur, u).val
           IN /\ st.total_messages = 2
              /\ st.total_conversations = 1
              /\ st.active_conversations = 1
              /\ \E cid \in ActiveIdsOf(Cur, u) :
                     LET m == StoredIn(Cur, cid).messages
                     IN m[1].role = "user" /\ m[2].role = "assistant"

\* C8: cleanup removes exactly the conversations with is_active = false and
\* updated_at earlier than now - days, and returns their number.
C8_CleanupExact ==
    Serving =>
        LET r == Mgr_cleanup_old_conversations(Cur, now)
            old == {cid \in ConvIds :
                        /\ StoredIn(Cur, cid) # None
                        /\ ~StoredIn(Cur, cid).is_active
                        /\ StoredIn(Cur, cid).updated_at < now - cleanup_old_data_days}
        IN /\ r.val = Cardinality(old)
           /\ \A cid \in ConvIds :
                  StoredIn(r.B, cid) = IF cid \in old THEN None ELSE StoredIn(Cur, cid)

\* A cleanup has removed an archived conversation and kept an active one that
\* is as old.
C8_Witness ==
    /\ Serving
    /\ \E gone, kept \in ConvIds :
           /\ gone <= nextId
           /\ StoredIn(Cur, gone) = None
           /\ StoredIn(Cur, kept) # None
           /\ StoredIn(Cur, kept).is_active
           /\ StoredIn(Cur, kept).updated_at < now - cleanup_old_data_days

\* C9: clear_conversation_history never deletes: once it has returned true the
\* conversation that was active is still returned by get_conversation(u, id)
\* with all its messages and summaries and is_active = false, get_conversation(u)
\* returns nothing, and the context is empty until a message is added.
C9_ClearKeeps ==
    Serving =>
        \A u \in Users :
            LET r == Mgr_clear_conversation_history(Cur, u, now)
            IN r.val = TRUE =>
                   \A cid \in ActiveIdsOf(Cur, u), t \in now..MaxTime :
                       LET was == StoredIn(Cur, cid)
                           g == Storage_get_conversation(r.B, u, cid, t)
                           a == Mgr_add_user_message(r.B, u, Hello, t)
                       IN /\ g.exc = "none"
                          /\ g.val # None
                          /\ g.val.messages = was.messages
                          /\ g.val.summaries = was.summaries
                          /\ ~g.val.is_active
                          /\ Storage_get_conversation(r.B, u, NoId, t).val = None
                          /\ Mgr_get_conversation_context(r.B, u, t).val = <<>>
                          /\ a.val = TRUE
                          /\ Mgr_get_conversation_context(a.B, u, t).val # <<>>

\* A conversation with messages has been cleared and is still there by id.
C9_Witness ==
    /\ Serving
    /\ \E u \in Users : \E cid \in IdsOf(Cur, u) :
           /\ ~StoredIn(Cur, cid).is_active
           /\ StoredIn(Cur, cid).messages # <<>>
           /\ ActiveIdsOf(Cur, u) = {}
           /\ Storage_get_conversation(Cur, u, cid, now).val # None

\* C10: clear_conversation_history twice in a row returns true, then false,
\* and the second call changes no stored state.
C10_ClearTwice ==
    Serving =>
        \A u \in Users :
            LET first == Mgr_clear_conversation_history(Cur, u, now)
            IN first.val = TRUE =>
                   \A t \in now..MaxTime :
                       LET second == Mgr_clear_conversation_history(first.B, u, t)
                       IN /\ second.val = FALSE
                          /\ second.B.files = first.B.files
                          /\ second.B.rows = first.B.rows
                          /\ second.B.dirs = first.B.dirs
                          /\ second.B.cache = first.B.cache

\* The first clear has been made; the second one answers false.
C10_Witness ==
    /\ Serving
    /\ \E u \in Users :
           /\ IdsOf(Cur, u) # {}
           /\ ActiveIdsOf(Cur, u) = {}
           /\ Mgr_clear_conversation_history(Cur, u, now).val = FALSE

\* C11: archive_conversation(u, id) returns true exactly when a conversation
\* with that id is stored for u, an already archived one included, in the file
\* backend as in the relational one; afterwards the conversation has
\* is_active = false and the messages and summaries it had.
C11_ArchiveExact ==
    Serving =>
        \A u \in Users : \A cid \in ConvIds :
            LET r == Storage_archive_conversation(Cur, u, cid, now)
            IN /\ r.exc = "none"
               /\ r.val = (cid \in IdsOf(Cur, u))
               /\ r.val = TRUE =>
                      /\ StoredIn(r.B, cid) # None
                      /\ ~StoredIn(r.B, cid).is_active
                      /\ StoredIn(r.B, cid).messages = StoredIn(Cur, cid).messages
                      /\ StoredIn(r.B, cid).summaries = StoredIn(Cur, cid).summaries

\* C12: get_conversation(u) without an id returns an active conversation of u
\* whose updated_at is the greatest among u's active conversations, or none
\* when u has no active one; get_conversation(u, id) returns the conversation
\* stored under id, or none when no conversation is stored under id.
C12_GetConversation ==
    Serving =>
        \A u \in Users :
            /\ LET g == Storage_get_conversation(Cur, u, NoId, now)
                   act == ActiveIdsOf(Cur, u)
               IN /\ g.exc = "none"
                  /\ IF act = {} THEN g.val = None
                     ELSE /\ g.val # None
                          /\ g.val.conversation_id \in act
                          /\ g.val.user_id = u
                          /\ g.val.is_active
                          /\ g.val.messages
                                 = StoredIn(Cur, g.val.conversation_id).messages
                          /\ \A cid \in act :
                                 StoredIn(Cur, cid).updated_at <= g.val.updated_at
            /\ \A cid \in ConvIds :
                   LET g == Storage_get_conversation(Cur, u, cid, now)
                   IN /\ g.exc = "none"
                      /\ cid \in IdsOf(Cur, u) =>
                             /\ g.val # None
                             /\ g.val.conversation_id = cid
                             /\ g.val.messages = StoredIn(Cur, cid).messages
                             /\ g.val.summaries = StoredIn(Cur, cid).summaries
                             /\ g.val.is_active = StoredIn(Cur, cid).is_active
                      /\ StoredIn(Cur, cid) = None => g.val = None

\* C13: create_conversation(u, id) with an id under which a conversation is
\* stored fails, and the stored conversation keeps its messages, summaries
\* and is_active flag.
C13_CreateDuplicate ==
    Serving =>
        \A u \in Users : \A cid \in IdsOf(Cur, u) :
            LET r == Storage_create_conversation(Cur, u, cid, now)
            IN /\ r.exc # "none"
               /\ StoredIn(r.B, cid) # None
               /\ StoredIn(r.B, cid).messages = StoredIn(Cur, cid).messages
               /\ StoredIn(r.B, cid).summaries = StoredIn(Cur, cid).summaries
               /\ StoredIn(r.B, cid).is_active = StoredIn(Cur, cid).is_active

\* Conversations a caller hands to save_conversation: a stored one as read,
\* or with one more message or one more summary carrying a time of the
\* caller's choice that is not in the future.
CallerConversations(c) ==
    {c}
    \cup {[c EXCEPT !.messages = Append(@,
               ConversationMessage(<<c.conversation_id, Len(c.messages) + 1>>,
                                   "user", Hello, ts, now).val)] : ts \in 0..now}
    \cup {[c EXCEPT !.summaries = Append(@,
               ConversationSummary(ShortSummary, Len(c.messages), ts))] : ts \in 0..now}

\* C15: for any conversation c, once save_conversation(c) has succeeded,
\* get_conversation(c.user_id, c.conversation_id) returns a conversation whose
\* messages and summaries equal c's, field for field and in the same order.
C15_RoundTrip ==
    Serving =>
        \A u \in Users : \A cid \in IdsOf(Cur, u) :
            LET g == Storage_get_conversation(Cur, u, cid, now)
            IN \A c \in CallerConversations(g.val) :
                   LET r == Storage_save_conversation(g.B, c, now)
                       back == Storage_get_conversation(r.B, c.user_id,
                                                        c.conversation_id, now)
                   IN r.exc = "none" =>
                          /\ back.exc = "none"
                          /\ back.val # None
                          /\ back.val.messages = c.messages
                          /\ back.val.summaries = c.summaries

ListedIds(convs) == {convs[i].conversation_id : i \in 1..Len(convs)}

\* C18: delete_conversation(u, id) returns true exactly when a conversation
\* with that id was stored for u; after true, get_conversation(u, id) returns
\* none, the conversation is in neither list_conversations(u) nor the counts
\* of get_user_stats(u), and nothing of it remains stored; a delete that
\* returns false changes nothing.
C18_DeleteRemoves ==
    Serving =>
        \A u \in Users : \A cid \in ConvIds :
            LET r == Storage_delete_conversation(Cur, u, cid)
                before == Storage_get_user_stats(Cur, u).val
                after == Storage_get_user_stats(r.B, u).val
            IN /\ r.exc = "none"
               /\ r.val = (cid \in IdsOf(Cur, u))
               /\ \A other \in ConvIds \ {cid} :
                      StoredIn(r.B, other) = StoredIn(Cur, other)
               /\ IF r.val
                  THEN /\ \A t \in now..MaxTime :
                              Storage_get_conversation(r.B, u, cid, t).val = None
                       /\ cid \notin ListedIds(
                              Storage_list_conversations(r.B, u, 10, 0).val)
                       /\ after.total_conversations = before.total_conversations - 1
                       /\ after.total_messages
                              = before.total_messages - Len(StoredIn(Cur, cid).messages)
                       /\ StoredIn(r.B, cid) = None
                       /\ r.B.cache[cid] = NoEntry
                  ELSE /\ r.B.files = files
                       /\ r.B.dirs = dirs
                       /\ r.B.cache = cache
                       /\ r.B.rows = rows

\* A conversation has been deleted (no cleanup can have removed it yet) while
\* another one, with a message, is still stored.
C18_Witness ==
    /\ Serving
    /\ now = 0
    /\ \E gone \in IssuedIds : \E kept \in IssuedIds :
           /\ StoredIn(Cur, gone) = None
           /\ StoredIn(Cur, kept) # None
           /\ StoredIn(Cur, kept).messages # <<>>
           /\ Storage_delete_conversation(Cur, "u1", gone).val = FALSE

\* C19: create_summary(u, id, ...) on a conversation that is not stored fails
\* with the not-found error and changes no stored conversation; on a stored
\* conversation of u it appends exactly one Summary at the end of the
\* summaries and leaves the messages as they were.
C19_CreateSummary ==
    Serving =>
        \A u \in Users : \A cid \in ConvIds : \A summary \in SummaryInputs :
            LET r == Storage_create_summary(Cur, u, cid, summary, now)
            IN /\ StoredIn(Cur, cid) = None =>
                      /\ r.exc = "ValueError"
                      /\ \A c \in ConvIds : StoredIn(r.B, c) = StoredIn(Cur, c)
               /\ cid \in IdsOf(Cur, u) =>
                      /\ r.exc = "none"
                      /\ StoredIn(r.B, cid) # None
                      /\ StoredIn(r.B, cid).summaries
                             = Append(StoredIn(Cur, cid).summaries, r.val)
                      /\ r.val.summary = summary
                      /\ StoredIn(r.B, cid).messages = StoredIn(Cur, cid).messages
                      /\ \A c \in ConvIds \ {cid} : StoredIn(r.B, c) = StoredIn(Cur, c)

\* C14: save_conversation is all-or-nothing: when a save_conversation call
\* fails partway, every later get_conversation of that conversation, by id or
\* as the active conversation, returns it exactly as before the call.
C14_SaveAllOrNothing ==
    Serving =>
        \A u \in Users : \A cid \in IdsOf(Cur, u) :
            LET byId == Storage_get_conversation(Cur, u, cid, now)
                active == Storage_get_conversation(byId.B, u, NoId, now)
            IN (byId.exc = "none" /\ byId.val # None) =>
                \A k \in FaultPositions \ {0}, torn \in BOOLEAN :
                    LET c == add_message(byId.val, "user", Hello, now).conv
                        r == Storage_save_conversation(
                                 [byId.B EXCEPT !.fault = k, !.torn = torn], c, now)
                        after == [r.B EXCEPT !.fault = 0, !.torn = FALSE]
                    IN r.exc # "none" =>
                           \A t \in now..MaxTime :
                               /\ Storage_get_conversation(after, u, cid, t).val
                                      = byId.val
                               /\ Storage_get_conversation(after, u, NoId, t).val
                                      = active.val

\* The two backends answered a call alike: both failed, or both returned the
\* same value.
Same(j, d) ==
    /\ (j.exc = "none") = (d.exc = "none")
    /\ j.exc = "none" => j.val = d.val

\* C16: the two backends are observationally equivalent: started empty and
\* given the same sequence of backend-contract operations, every operation
\* returns the same result (same value or same failure) in both.
C16_BackendsAgree ==
    (kind = "both" /\ phase = "running") =>
        \A u \in Users :
            /\ Same(Json_list_conversations(Cur, u, 10, 0),
                    Db_list_conversations(Cur, u, 10, 0))
            /\ Same(Json_get_user_stats(Cur, u), Db_get_user_stats(Cur, u))
            /\ Same(Json_cleanup_old_data(Cur, cleanup_old_data_days, now),
                    Db_cleanup_old_data(Cur, cleanup_old_data_days, now))
            /\ \A cid \in {NoId} \cup IssuedIds :
                   /\ Same(Json_get_conversation(Cur, u, cid, now),
                           Db_get_conversation(Cur, u, cid, now))
                   /\ Same(Json_get_context_messages(Cur, u, cid, TRUE, now),
                           Db_get_context_messages(Cur, u, cid, TRUE, now))
                   /\ cid \in WritableIds(u) =>
                          /\ Same(Json_create_conversation(Cur, u, cid, now),
                                  Db_create_conversation(Cur, u, cid, now))
                          /\ Same(Json_add_message(Cur, u, "user", Hello, cid, now),
                                  Db_add_message(Cur, u, "user", Hello, cid, now))
                   /\ cid # NoId =>
                          /\ Same(Json_archive_conversation(Cur, u, cid, now),
                                  Db_archive_conversation(Cur, u, cid, now))
                          /\ Same(Json_delete_conversation(Cur, u, cid),
                                  Db_delete_conversation(Cur, u, cid))
                          /\ Same(Json_create_summary(Cur, u, cid, ShortSummary, now),
                                  Db_create_summary(Cur, u, cid, ShortSummary, now))

\* C17: after any sequence of Manager operations, those that reported a
\* failure included, every user has at most one conversation with
\* is_active = true.
C17_OneActive ==
    \A u \in Users : Cardinality(ActiveIdsOf(Cur, u)) <= 1

\* Content within the length limit only once its padding is stripped.
TooLongPadded == Text("x", 1, MaxContentLength, 0)

RejectedInputs == {Empty, Blank, TooLong, TooLongPadded}

MessageCount(B, cid) ==
    IF StoredIn(B, cid) = None THEN 0 ELSE Len(StoredIn(B, cid).messages)

\* C20: a message whose content is empty, whitespace-only or longer than
\* 50000 characters, or whose timestamp is in the future, is rejected with a
\* validation error and never stored: add_user_message / add_assistant_message
\* with such content returns false and leaves the message count of every
\* conversation unchanged.
C20_InvalidRejected ==
    Serving =>
        /\ \A c \in RejectedInputs, role \in Roles :
               ConversationMessage("m", role, c, now, now).exc = "ValidationError"
        /\ \A role \in Roles :
               ConversationMessage("m", role, Hello, now + 1, now).exc
                   = "ValidationError"
        /\ \A u \in Users, c \in RejectedInputs :
               LET asUser == Mgr_add_user_message(Cur, u, c, now)
                   asAssistant == Mgr_add_assistant_message(Cur, u, c, now)
               IN /\ asUser.val = FALSE
                  /\ asAssistant.val = FALSE
                  /\ \A cid \in ConvIds :
                         /\ MessageCount(asUser.B, cid) = MessageCount(Cur, cid)
                         /\ MessageCount(asAssistant.B, cid) = MessageCount(Cur, cid)
        /\ \A cid \in ConvIds :
               StoredIn(Cur, cid) # None =>
                   \A i \in 1..Len(StoredIn(Cur, cid).messages) :
                       LET m == StoredIn(Cur, cid).messages[i]
                       IN /\ m.content.core >= 1
                          /\ TextLen(m.content) <= MaxContentLength
                          /\ m.timestamp <= now

\* A rejected message was the first one of a user: the conversation it was
\* meant for is there and holds no message.
C20_Witness ==
    /\ Serving
    /\ \E cid \in ConvIds :
           /\ StoredIn(Cur, cid) # None
           /\ StoredIn(Cur, cid).messages = <<>>
           /\ StoredIn(Cur, cid).is_active
    /\ Mgr_add_user_message(Cur, "u1", Blank, now).val = FALSE

IsPrefix(a, b) == Len(a) <= Len(b) /\ SubSeq(b, 1, Len(a)) = a

\* C21: messages and summaries are append-only: whatever Manager call is
\* made, a conversation that is stored before and after it has its earlier
\* messages (summaries) as a prefix of its later ones, and a stored
\* conversation disappears only by being deleted (by the cleanup, which takes
\* archived conversations older than the horizon).
C21_AppendOnly ==
    [][\A cid \in ConvIds :
           LET was == StoredIn(Cur, cid)
               is == StoredIn(Cur, cid)'
           IN was # None =>
                  IF is = None
                  THEN /\ ~was.is_active
                       /\ was.updated_at < now - cleanup_old_data_days
                  ELSE /\ IsPrefix(was.messages, is.messages)
                       /\ IsPrefix(was.summaries, is.summaries)]_vars

\* C22: every successful add_message, create_summary, archive_conversation
\* and save_conversation leaves the stored updated_at of the conversation at
\* the time of the call, and the updated_at of a stored conversation is never
\* earlier than the timestamp of its last message or the created_at of its
\* last Summary.
C22_UpdatedAt ==
    Serving =>
        \A u \in Users : \A cid \in IdsOf(Cur, u) :
            LET c == StoredIn(Cur, cid)
                add == Storage_add_message(Cur, u, "user", Hello, cid, now)
                sum == Storage_create_summary(Cur, u, cid, ShortSummary, now)
                arc == Storage_archive_conversation(Cur, u, cid, now)
                sav == Storage_save_conversation(Cur, c, now)
                Stamped(r) == (r.exc = "none" /\ StoredIn(r.B, cid) # None)
                                  => StoredIn(r.B, cid).updated_at = now
            IN /\ Stamped(add)
               /\ Stamped(sum)
               /\ arc.val = TRUE => Stamped(arc)
               /\ Stamped(sav)
               /\ c.messages # <<>> =>
                      c.updated_at >= c.messages[Len(c.messages)].timestamp
               /\ c.summaries # <<>> => c.updated_at >= LastSummary(c).created_at

\* C23: every Summary of every stored conversation has message_count at most
\* the number of messages of that conversation, and the Summary that
\* create_summary returns has message_count equal to the number of messages
\* the conversation holds at that moment.
C23_SummaryCount ==
    /\ \A cid \in ConvIds :
           LET c == StoredIn(Cur, cid)
           IN c # None =>
                  \A i \in 1..Len(c.summaries) :
                      c.summaries[i].message_count <= Len(c.messages)
    /\ Serving =>
           \A u \in Users : \A cid \in IdsOf(Cur, u) :
               LET r == Storage_create_summary(Cur, u, cid, ShortSummary, now)
               IN r.exc = "none" =>
                      /\ StoredIn(r.B, cid) # None
                      /\ LastSummary(StoredIn(r.B, cid)) = r.val
                      /\ r.val.message_count = Len(StoredIn(r.B, cid).messages)

\* A conversation with a Summary taken at two messages has grown to three.
C23_Witness ==
    \E cid \in ConvIds :
        LET c == StoredIn(Cur, cid)
        IN /\ c # None
           /\ c.summaries # <<>>
           /\ LastSummary(c).message_count = 2
           /\ Len(c.messages) = 3

\* The greatest created_at among the summaries of c.
GreatestCreatedAt(c) ==
    CHOOSE x \in {c.summaries[i].created_at : i \in 1..Len(c.summaries)} :
        \A i \in 1..Len(c.summaries) : c.summaries[i].created_at <= x

StrictlyLater(c) ==
    Cardinality({i \in 1..Len(c.messages) :
                     c.messages[i].timestamp > GreatestCreatedAt(c)})

\* C24: should_summarize(T) is true exactly when the conversation has at
\* least T messages and either has no Summary or has at least T \div 2
\* messages stamped strictly later than the greatest Summary created_at;
\* should_summarize_conversation returns that value for the user's active
\* conversation with T = auto_summarize_threshold, and false when the user
\* has no active conversation.
C24_ShouldSummarize ==
    Serving =>
        \A u \in Users :
            LET s == Mgr_should_summarize_conversation(Cur, u, now)
                Expected(c, T) ==
                    /\ Len(c.messages) >= T
                    /\ \/ c.summaries = <<>>
                       \/ StrictlyLater(c) >= T \div 2
            IN /\ ~s.raised
               /\ ActiveIdsOf(Cur, u) = {} => s.val = FALSE
               /\ \A cid \in ActiveIdsOf(Cur, u) :
                      /\ s.val = Expected(StoredIn(Cur, cid), auto_summarize_threshold)
                      /\ \A T \in 0..(MaxMsgs + 1) :
                             should_summarize(StoredIn(Cur, cid), T)
                                 = Expected(StoredIn(Cur, cid), T)

\* The active conversation is at the threshold and has a Summary, its only
\* messages are stamped at the Summary's own created_at, and the answer is
\* false.
C24_Witness ==
    /\ Serving
    /\ \E u \in Users : \E cid \in ActiveIdsOf(Cur, u) :
           LET c == StoredIn(Cur, cid)
           IN /\ c.summaries # <<>>
              /\ Len(c.messages) >= auto_summarize_threshold
              /\ \E i \in 1..Len(c.messages) :
                     c.messages[i].timestamp = GreatestCreatedAt(c)
              /\ StrictlyLater(c) = 0
              /\ ~Mgr_should_summarize_conversation(Cur, u, now).val
    /\ \E u \in Users : ActiveIdsOf(Cur, u) = {}

\* C29: a cache entry of the file backend is served only while the time is
\* strictly before its expiry, which is the time it was cached plus the TTL;
\* a lookup at or after the expiry removes the entry and answers from disk;
\* the passage of time removes no entry, and an entry goes only by an expired
\* lookup, by the deletion of its conversation, or at shutdown.
C29_CacheExpiry ==
    [][kind = "json" =>
          /\ \A cid \in ConvIds :
                 LET e == cache[cid]
                 IN (Serving /\ e # NoEntry) =>
                        LET u == e.conv.user_id
                            hit == Json_get_cached_conversation(Cur, u, cid, now)
                            got == Json_get_conversation(Cur, u, cid, now)
                        IN IF now < e.expiry
                           THEN /\ hit.val = e.conv
                                /\ hit.B.cache[cid] = e
                                /\ got.val = e.conv
                           ELSE /\ hit.val = None
                                /\ hit.B.cache[cid] = NoEntry
                                /\ got.val = Json_load_conversation_from_file(Cur, u, cid)
          /\ now' # now => cache' = cache
          /\ \A cid \in ConvIds :
                 /\ (cache[cid] # NoEntry /\ cache'[cid] = NoEntry) =>
                        \/ now >= cache[cid].expiry
                        \/ files[cid] # NoFile /\ files'[cid] = NoFile
                        \/ phase' = "stopped"
                 /\ (cache'[cid] # NoEntry /\ cache'[cid] # cache[cid]) =>
                        cache'[cid].expiry = now + CacheTtl]_vars

\* An entry is still in the cache at its expiry, its file is on disk, and the
\* lookup drops it.
C29_Witness ==
    /\ kind = "json"
    /\ Serving
    /\ \E cid \in ConvIds :
           /\ cache[cid] # NoEntry
           /\ now = cache[cid].expiry
           /\ StoredIn(Cur, cid) # None
           /\ Json_get_cached_conversation(
                  Cur, cache[cid].conv.user_id, cid, now).B.cache[cid] = NoEntry

\* The archived conversations of B older than the horizon of a cleanup.
Stale(B, days) ==
    {k \in ConvIds : /\ StoredIn(B, k) # None
                     /\ ~StoredIn(B, k).is_active
                     /\ StoredIn(B, k).updated_at < now - days}

\* C30: when a conversation file of user u does not parse, get_conversation
\* for it returns none, and list_conversations, get_user_stats,
\* get_conversation without id and cleanup_old_data complete and return or
\* process every readable conversation of u.
C30_CorruptIsolated ==
    (kind = "json" /\ Serving) =>
        \A u \in Users : \A cid \in ConvIds :
            files[cid] = Corrupt(u) =>
                LET byId == Json_get_conversation(Cur, u, cid, now)
                    list == Json_list_conversations(Cur, u, MaxConvs + 1, 0)
                    stats == Json_get_user_stats(Cur, u)
                    active == Json_get_conversation(Cur, u, NoId, now)
                    clean == Json_cleanup_old_data(Cur, cleanup_old_data_days, now)
                IN /\ byId.exc = "none" /\ byId.val = None
                   /\ list.exc = "none" /\ ListedIds(list.val) = IdsOf(Cur, u)
                   /\ stats.exc = "none"
                   /\ stats.val.total_conversations = Cardinality(IdsOf(Cur, u))
                   /\ active.exc = "none"
                   /\ IF ActiveIdsOf(Cur, u) = {} THEN active.val = None
                      ELSE /\ active.val # None
                           /\ active.val.conversation_id \in ActiveIdsOf(Cur, u)
                   /\ clean.exc = "none"
                   /\ clean.val = Cardinality(Stale(Cur, cleanup_old_data_days))
                   /\ \A k \in ConvIds :
                          StoredIn(clean.B, k) =
                              IF k \in Stale(Cur, cleanup_old_data_days)
                              THEN None ELSE StoredIn(Cur, k)

\* The file backend without its cache: every lookup finds the cache empty
\* and goes to disk.
Uncached(B) == [B EXCEPT !.cache = [k \in ConvIds |-> NoEntry]]

SameOutcome(c, d) ==
    /\ c.exc = d.exc
    /\ c.val = d.val
    /\ c.B.files = d.B.files
    /\ c.B.dirs = d.B.dirs

\* C28: the cache of the file backend is transparent: in every state reached
\* by backend operations, each operation returns the same result and leaves
\* the same files with the cache as with every lookup going to disk (so the
\* two stay in step over any sequence of operations).
C28_CacheTransparent ==
    (kind = "json" /\ Serving) =>
        \A u \in Users :
            /\ SameOutcome(Json_get_user_stats(Cur, u),
                           Json_get_user_stats(Uncached(Cur), u))
            /\ SameOutcome(Json_list_conversations(Cur, u, MaxConvs + 1, 0),
                           Json_list_conversations(Uncached(Cur), u, MaxConvs + 1, 0))
            /\ SameOutcome(Json_cleanup_old_data(Cur, cleanup_old_data_days, now),
                           Json_cleanup_old_data(Uncached(Cur), cleanup_old_data_days, now))
            /\ \A cid \in {NoId} \cup IssuedIds :
                   /\ SameOutcome(Json_get_conversation(Cur, u, cid, now),
                                  Json_get_conversation(Uncached(Cur), u, cid, now))
                   /\ SameOutcome(
                          Json_get_context_messages(Cur, u, cid, TRUE, now),
                          Json_get_context_messages(Uncached(Cur), u, cid, TRUE, now))
                   /\ cid \in WritableIds(u) =>
                          /\ SameOutcome(
                                 Json_add_message(Cur, u, "user", Hello, cid, now),
                                 Json_add_message(Uncached(Cur), u, "user", Hello,
                                                  cid, now))
                          /\ SameOutcome(
                                 Json_create_conversation(Cur, u, cid, now),
                                 Json_create_conversation(Uncached(Cur), u, cid, now))
            /\ \A cid \in IssuedIds :
                   /\ SameOutcome(Json_archive_conversation(Cur, u, cid, now),
                                  Json_archive_conversation(Uncached(Cur), u, cid, now))
                   /\ SameOutcome(Json_delete_conversation(Cur, u, cid),
                                  Json_delete_conversation(Uncached(Cur), u, cid))
                   /\ SameOutcome(
                          Json_create_summary(Cur, u, cid, ShortSummary, now),
                          Json_create_summary(Uncached(Cur), u, cid, ShortSummary, now))

Last(seq) == seq[Len(seq)]

\* C25: no update is lost in the file backend: whenever a call of
\* add_message, create_summary or archive_conversation that works on its
\* user's active conversation completes its save, whatever other calls are in
\* flight, the stored conversation is the one stored just before with exactly
\* that call's effect added (the message appended, the Summary appended, or
\* is_active cleared), so the effects of the other calls are still there.
C25_NoLostUpdate ==
    [][\A t \in Tasks :
           LET k == tasks[t]
           IN (k.pc = "save" /\ k.at = "inside" /\ tasks'[t] = Idle) =>
                  \A cid \in {k.conv.conversation_id} :
                  LET was == StoredIn(Cur, cid)
                      is == StoredIn(Cur, cid)'
                  IN (was # None /\ was.is_active) =>
                         /\ is # None
                         /\ k.op = "add_message" =>
                                /\ is.messages
                                       = Append(was.messages, Last(k.conv.messages))
                                /\ is.summaries = was.summaries
                                /\ is.is_active
                         /\ k.op = "create_summary" =>
                                /\ is.summaries
                                       = Append(was.summaries, Last(k.conv.summaries))
                                /\ is.messages = was.messages
                                /\ is.is_active
                         /\ k.op = "archive_conversation" =>
                                /\ ~is.is_active
                                /\ is.messages = was.messages
                                /\ is.summaries = was.summaries]_vars

\* Two calls are in flight on the active conversation of the same user: an
\* add_message has read it and is about to save, and the other call, an
\* add_message, a create_summary or an archive_conversation, has not read yet.
C25_Witness ==
    \E t \in Tasks, o \in Tasks :
        /\ t # o
        /\ tasks[t].op = "add_message"
        /\ tasks[t].pc = "save"
        /\ tasks[t].conv.messages # <<>>
        /\ StoredIn(Cur, tasks[t].conv.conversation_id) # None
        /\ StoredIn(Cur, tasks[t].conv.conversation_id).is_active
        /\ tasks[o].op \in {"add_message", "create_summary", "archive_conversation"}
        /\ tasks[o].pc = "get"
        /\ tasks[o].u = tasks[t].u
        /\ tasks[o].cid \in {NoId, tasks[t].conv.conversation_id}

\* C26: in the file backend a call that is about to read, write or remove
\* conversation files holds the backend's mutex, whatever the operation.
C26_FilesUnderLock ==
    \A t \in Tasks :
        (tasks[t] # Idle /\ tasks[t].at = "inside" /\ tasks[t].op # "health_check")
            => lock = t

\* C27: when the file backend's shutdown completes, every conversation that
\* was in the cache when it started is on disk with the cached content and
\* the cache is empty, whether or not a write of the flush fails, and the
\* call holds the mutex while it flushes.
C27_ShutdownFlushes ==
    (kind = "json" /\ Serving) =>
        /\ \A k \in FaultPositions, torn \in BOOLEAN :
               LET r == Json_shutdown(Storage(k, torn))
               IN r.exc = "none" =>
                      \A cid \in ConvIds :
                          /\ cache[cid] # NoEntry =>
                                 r.B.files[cid] = cache[cid].conv
                          /\ r.B.cache[cid] = NoEntry
        /\ \A t \in Tasks :
               (tasks[t].op = "shutdown" /\ tasks[t].at = "inside") => lock = t

\* The positions from (1-based) to to of seq, as far as seq goes.
Positions(seq, from, to) ==
    SubSeq(seq, from, IF to > Len(seq) THEN Len(seq) ELSE to)

Summarizers(u) ==
    {t \in Tasks : tasks[t].op = "_create_conversation_summary" /\ tasks[t].u = u}

SummaryCount(B, cid) ==
    IF StoredIn(B, cid) = None THEN 0 ELSE Len(StoredIn(B, cid).summaries)

\* C33: while a summary task started by generate_response has not yet
\* recorded its Summary, a further generate_response of the same user starts
\* no second one: a user never has two summary tasks in flight.
C33_OneSummarizer ==
    \A u \in Users : Cardinality(Summarizers(u)) <= 1

\* C37: a Summary is recorded only on the conversation whose messages it was
\* computed from: a step that adds a summary to a conversation is the
\* recording step of a summary task that read the context of that very
\* conversation.
C37_SummaryOnSource ==
    [][\A cid \in ConvIds :
          SummaryCount(Cur, cid)' > SummaryCount(Cur, cid) =>
              \E t \in Tasks :
                  /\ tasks[t].op = "_create_conversation_summary"
                  /\ tasks[t].pc = "llm"
                  /\ tasks'[t] = Idle
                  /\ tasks[t].cid = cid]_vars


ConversationsOf(B, u) ==
    {cid \in ConvIds : StoredIn(B, cid) # None /\ StoredIn(B, cid).user_id = u}

\* C34: the number of conversations stored for one user never exceeds the
\* backend's max_conversations_per_user.
C34_ConversationLimit ==
    \A u \in Users : Cardinality(ConversationsOf(Cur, u)) <= max_conversations_per_user


\* C35: get_conversation(u, id) returns only a conversation of u, and
\* add_message(u, ..., id) and create_summary(u, id, ...) leave a conversation
\* of another user as it is.  (The file backend keeps each user's files in a
\* directory of the user's own, so there an add_message under another user's
\* id writes a different file; the store of the model is keyed by id alone,
\* and add_message is looked at in the relational backend.)
C35_UserIsolation ==
    Serving =>
        \A u \in Users, cid \in IssuedIds :
            /\ LET g == Storage_get_conversation(Cur, u, cid, now)
               IN (g.exc = "none" /\ g.val # None) => g.val.user_id = u
            /\ HeldByOther(Cur, u, cid) =>
                   /\ StoredIn(Storage_create_summary(Cur, u, cid, ShortSummary, now).B, cid)
                          = StoredIn(Cur, cid)
                   /\ kind = "database" =>
                          StoredIn(Storage_add_message(Cur, u, "user", Hello, cid, now).B, cid)
                              = StoredIn(Cur, cid)


\* C36: a failed add is a no-op on storage: whenever add_user_message or
\* add_assistant_message returns false, every stored conversation is as it
\* was before the call (no empty conversation has been created) and
\* get_user_stats returns what it returned before.
C36_FailedAddNoOp ==
    Serving =>
        \A u \in Users, role \in {"user", "assistant"}, content \in MessageInputs :
            LET r == Mgr_add_message(Cur, u, role, content, now)
            IN r.val = FALSE =>
                   /\ \A cid \in ConvIds : StoredIn(r.B, cid) = StoredIn(Cur, cid)
                   /\ Mgr_get_user_stats(r.B, u).val = Mgr_get_user_stats(Cur, u).val


\* C38: a conversation removed from the file backend by cleanup_old_data or
\* delete_conversation stays removed: get_conversation(u, id) returns none,
\* within the cache TTL too, and a later shutdown() does not write it back.
C38_RemovedStaysRemoved ==
    (kind = "json" /\ Serving) =>
        \A u \in Users : \A cid \in IdsOf(Cur, u) :
            \A B \in {Json_cleanup_old_data(Cur, cleanup_old_data_days, now).B,
                      Json_delete_conversation(Cur, u, cid).B} :
                B.files[cid] = NoFile =>
                    /\ \A t \in now..MaxTime :
                           Json_get_conversation(B, u, cid, t).val = None
                    /\ Json_shutdown(B).B.files[cid] = NoFile

Archived(B, cid) == StoredIn(B, cid) # None /\ ~StoredIn(B, cid).is_active

\* What is stored after each Manager call that may write, made by u now.
AfterManagerCalls(u) ==
    {Mgr_add_user_message(Cur, u, Hello, now).B,
     Mgr_add_assistant_message(Cur, u, Hello, now).B,
     Mgr_create_conversation_summary(Cur, u, ShortSummary, now).B,
     Mgr_clear_conversation_history(Cur, u, now).B,
     Mgr_get_conversation_context(Cur, u, now).B,
     Mgr_should_summarize_conversation(Cur, u, now).B,
     Mgr_cleanup_old_conversations(Cur, now).B}

C39_KeepsArchived ==
    Serving =>
        \A u \in Users, cid \in ConvIds :
            Archived(Cur, cid) =>
                \A B \in AfterManagerCalls(u) :
                    StoredIn(B, cid) # None =>
                        /\ StoredIn(B, cid).messages = StoredIn(Cur, cid).messages
                        /\ StoredIn(B, cid).summaries = StoredIn(Cur, cid).summaries

\* C39: archiving is one-way: a conversation stored with is_active = false is
\* never stored with is_active = true again, whatever backend or Manager
\* operation is the next step, and no Manager operation appends a message or a
\* summary to an archived conversation.
C39_ArchiveOneWay ==
    [][/\ C39_KeepsArchived
       /\ \A cid \in ConvIds :
              Archived(Cur, cid) =>
                  (StoredIn(Cur, cid) = None \/ ~StoredIn(Cur, cid).is_active)']_vars

\* C40: the mutex of the file backend never deadlocks: no task acquires the
\* mutex while holding it, and under fair scheduling every backend operation
\* that was started completes.
C40_NoDeadlock ==
    /\ [](\A t \in Tasks : tasks[t].at \in {"acquire", "waiting"} => lock # t)
    /\ \A t \in Tasks : (tasks[t] # Idle) ~> (tasks[t] = Idle)

\* A task holds the mutex while another call is in flight.
C40_Witness ==
    \E t \in Tasks, o \in Tasks :
        /\ o # t
        /\ lock = t
        /\ tasks[t].at = "inside"
        /\ tasks[o] # Idle

====
